---- MODULE Spec2Model ----
(***************************************************************************)
(* A model of packages/resources/src/Function.ts: the props merge, the     *)
(* three-way deployment mode selection of the constructor, the deferred    *)
(* build task and the cross-stack layer resolution.                        *)
(***************************************************************************)
EXTENDS Integers, Sequences, FiniteSets, TLC

VARIABLES
  defaultFunctionProps,  \* stack.defaultFunctionProps: the defaults chain
  mergeOut,              \* the last evaluation of mergeProps / of the constructor's fold
  tree,                  \* the construct tree: the child nodes of every scope
  deps,                  \* the stack dependencies: <<dependent stack, stack it depends on>>
  resolved,              \* history: what the first resolution of <<scope, layer>> returned
  last,                  \* the last operation called and how it ended
  app,                   \* the application: mode, skipBuild, debugIncreaseTimeout, name, stage
                         \* and the handlers registered with it
  fns,                   \* the functions constructed, by node path
  queue,                 \* useDeferredTasks(): the deferred tasks added and not yet started
  phase                  \* "construct" while the tree is built, then "drain", "aborted"

\* the longest defaults chain of the merge specification
MaxChain == 2

vars == <<defaultFunctionProps, mergeOut, tree, deps, resolved, last, app, fns, queue, phase>>

(***************************************************************************)
(* JavaScript values.  A property value is either undefined or a value v,  *)
(* written Some(v); an object is a function from the keys it carries to    *)
(* such values, so that a key carried with the value undefined differs     *)
(* from a key that is not carried at all.                                  *)
(***************************************************************************)
Undefined == <<>>

Some(v) == <<v>>

EmptyObj == [k \in {} |-> Undefined]

\* obj[key]: reading a key the object does not carry gives undefined
Get(obj, key) == IF key \in DOMAIN obj THEN obj[key] ELSE Undefined

\* { ...a, ...b }: every key of either object, b's value where b carries the key
Spread(a, b) ==
  [k \in (DOMAIN a) \cup (DOMAIN b) |-> IF k \in DOMAIN b THEN b[k] ELSE a[k]]

\* x || {} and x || [] for an object or array x (objects and arrays are truthy)
OrEmptyObj(x) == IF x = Undefined THEN EmptyObj ELSE x[1]

OrEmptyList(x) == IF x = Undefined THEN <<>> ELSE x[1]

\* what `last` records of a call of a function that changes nothing: what it
\* was given, how it ended and, as result, Some(v) for the value v it returned
Applied(op, status, argument, result) ==
  [op |-> op, status |-> status, target |-> argument, repeat |-> FALSE, result |-> result,
   props |-> EmptyObj]

(***************************************************************************)
(* Permissions: the string "*" or an array of entries.                     *)
(***************************************************************************)
Wildcard == [all |-> TRUE, entries |-> <<>>]

PermList(s) == [all |-> FALSE, entries |-> s]

IsWildcard(x) == x # Undefined /\ x[1].all

\* permissions || [] as the array of entries
OrEmptyPerms(x) == IF x = Undefined THEN <<>> ELSE x[1].entries

(***************************************************************************)
(* Function.mergeProps                                                     *)
(***************************************************************************)
\* a merge of the environments in which the base's value is kept on a conflict
mergeEnvironmentBaseWins(baseProps, props) ==
  LET environment == Spread(OrEmptyObj(Get(props, "environment")),
                            OrEmptyObj(Get(baseProps, "environment")))
  IN  IF DOMAIN environment = {} THEN EmptyObj
      ELSE ("environment" :> Some(environment))

mergeEnvironment(baseProps, props) ==
  LET environment == Spread(OrEmptyObj(Get(baseProps, "environment")),
                            OrEmptyObj(Get(props, "environment")))
  IN  IF DOMAIN environment = {} THEN EmptyObj
      ELSE ("environment" :> Some(environment))

\* a merge of the layers that puts the override's layers first
mergeLayersOverrideFirst(baseProps, props) ==
  LET layers == OrEmptyList(Get(props, "layers")) \o OrEmptyList(Get(baseProps, "layers"))
  IN  IF Len(layers) = 0 THEN EmptyObj ELSE ("layers" :> Some(layers))

mergeLayers(baseProps, props) ==
  LET layers == OrEmptyList(Get(baseProps, "layers")) \o OrEmptyList(Get(props, "layers"))
  IN  IF Len(layers) = 0 THEN EmptyObj ELSE ("layers" :> Some(layers))

mergeConfig(baseProps, props) ==
  LET config == OrEmptyList(Get(baseProps, "config")) \o OrEmptyList(Get(props, "config"))
  IN  IF Len(config) = 0 THEN EmptyObj ELSE ("config" :> Some(config))

mergeBind(baseProps, props) ==
  LET bind == OrEmptyList(Get(baseProps, "bind")) \o OrEmptyList(Get(props, "bind"))
  IN  IF Len(bind) = 0 THEN EmptyObj ELSE ("bind" :> Some(bind))

\* a merge of the permissions in which a wildcard base is overridden, not absorbing
mergePermissionsBaseNotAbsorbing(baseProps, props) ==
  IF IsWildcard(Get(props, "permissions"))
  THEN ("permissions" :> Get(props, "permissions"))
  ELSE LET permissions == (IF IsWildcard(Get(baseProps, "permissions")) THEN <<>>
                           ELSE OrEmptyPerms(Get(baseProps, "permissions")))
                          \o OrEmptyPerms(Get(props, "permissions"))
       IN  IF Len(permissions) = 0 THEN EmptyObj
           ELSE ("permissions" :> Some(PermList(permissions)))

mergePermissions(baseProps, props) ==
  IF IsWildcard(Get(baseProps, "permissions"))
  THEN ("permissions" :> Get(baseProps, "permissions"))
  ELSE IF IsWildcard(Get(props, "permissions"))
  THEN ("permissions" :> Get(props, "permissions"))
  ELSE LET permissions == OrEmptyPerms(Get(baseProps, "permissions"))
                          \o OrEmptyPerms(Get(props, "permissions"))
       IN  IF Len(permissions) = 0 THEN EmptyObj
           ELSE ("permissions" :> Some(PermList(permissions)))

mergeProps(baseProps, props) ==
  Spread(Spread(Spread(Spread(Spread(Spread(
    baseProps,
    props),
    mergeBind(baseProps, props)),
    mergeConfig(baseProps, props)),
    mergeLayers(baseProps, props)),
    mergeEnvironment(baseProps, props)),
    mergePermissions(baseProps, props))

(***************************************************************************)
(* The constructor's merge with the stack's defaultFunctionProps:          *)
(*   chain.slice().reverse().forEach(per => props = mergeProps(per, props))*)
(***************************************************************************)
Reverse(s) == [i \in 1..Len(s) |-> s[Len(s) + 1 - i]]

RECURSIVE ForEachMerge(_, _)
ForEachMerge(pers, props) ==
  IF pers = <<>> THEN props
  ELSE ForEachMerge(Tail(pers), mergeProps(Head(pers), props))

\* the chain the stack holds after .reverse() without .slice(): an array is
\* reversed in place
defaultFunctionPropsReversedInPlace(chain) == Reverse(chain)

\* lines 737-739: the chain the stack holds after .slice().reverse(); slice
\* copies the array and the copy is the one reversed
defaultFunctionPropsAfterSlice(chain) == chain

\* the same loop over the chain as registered, without the reversal
constructorMergeNoReverse(chain, props) == ForEachMerge(chain, props)

constructorMerge(chain, props) == ForEachMerge(Reverse(chain), props)

(***************************************************************************)
(* The construct tree.  Names are sequences of characters, so that the     *)
(* identifiers the code builds by concatenation can be compared.  A node   *)
(* is known by the path of its scope and its id; addr is the node's        *)
(* address, a fixed-length hash that is unique to the node.                *)
(***************************************************************************)
StackA == <<"A">>

StackB == <<"B">>

ScopeApi == <<"A", "/", "x">>

Scopes == {StackA, ScopeApi, StackB}

\* Stack.of(construct): the stack is the first segment of the path
StackOf(path) == <<Head(path)>>

NoAddr == <<>>

\* a token: a value that is only known at deploy time
Token(of) == [token |-> TRUE, text |-> of]

Concrete(chars) == [token |-> FALSE, text |-> chars]

Node(scope, id, kind, addr, name, value) ==
  [scope |-> scope, id |-> id, kind |-> kind, addr |-> addr, name |-> name, value |-> value]

PathOf(node) == node.scope \o <<"/">> \o node.id

\* a layer created in the tree: its layerVersionArn is a token
OwnLayer(scope, id, addr) ==
  Node(scope, id, "Layer", addr, <<>>, Token(scope \o <<"/">> \o id))

\* a layer imported by its ARN: its layerVersionArn is a string
ArnLayer(scope, id, addr, arn) == Node(scope, id, "Layer", addr, <<>>, Concrete(arn))

LayerB1 == OwnLayer(StackB, <<"L">>, <<"c", "1">>)

LayerB2 == OwnLayer(<<"B", "/", "y">>, <<"L">>, <<"c", "2">>)

LayerA3 == OwnLayer(StackA, <<"M">>, <<"c", "3">>)

LayerB4 == ArnLayer(StackB, <<"N">>, <<"c", "4">>, <<"a", "r", "n", ":", "n">>)

LayerNodes == {LayerB1, LayerB2, LayerA3, LayerB4}

InitTree == LayerNodes

\* the layer resource a props' layer reference stands for
LayerAt(path) == CHOOSE l \in LayerNodes : PathOf(l) = path

\* scope.node.tryFindChild(id)
tryFindChild(t, scope, id) ==
  IF \E n \in t : n.scope = scope /\ n.id = id
  THEN Some(CHOOSE n \in t : n.scope = scope /\ n.id = id)
  ELSE Undefined

(***************************************************************************)
(* Function.handleImportedLayer.  The result carries the tree and the      *)
(* dependencies after the call, the layer returned, and an error when a    *)
(* child is created under an id its scope already holds.                   *)
(***************************************************************************)
Chars_Arn == <<"A", "r", "n", "-">>

Chars_layers == <<"/", "l", "a", "y", "e", "r", "s", "/">>

\* `${layer.node.id}Arn`: an identifier that leaves the node's address out
parameterIdNoAddr(layer) == layer.id \o <<"A", "r", "n">>

\* `${layer.node.id}Arn-${layer.node.addr}`
parameterId(layer) == layer.id \o Chars_Arn \o layer.addr

\* `/layers/${layerStack.node.id}/${parameterId}`
parameterName(layer) ==
  Chars_layers \o StackOf(layer.scope) \o <<"/">> \o parameterId(layer)

\* `I${layer.node.id}-${layer.node.addr}`
importedLayerId(layer) == <<"I">> \o layer.id \o <<"-">> \o layer.addr

Outcome(t, d, status, result) == [tree |-> t, deps |-> d, status |-> status, result |-> result]

NoNode == Node(<<>>, <<>>, "none", NoAddr, <<>>, Concrete(<<>>))

\* new Child(scope, id, ...): fails when the scope already has a child of that id
AddChild(out, node) ==
  IF tryFindChild(out.tree, node.scope, node.id) # Undefined
  THEN Outcome(out.tree, out.deps, "DuplicateConstruct", NoNode)
  ELSE Outcome(out.tree \cup {node}, out.deps, "ok", node)

\* the layer is created again on every call, without looking for the import
\* the scope already holds
importLayerNoReuse(out, scope, layer) ==
  AddChild(out, Node(scope, importedLayerId(layer), "LayerVersion", NoAddr,
                     parameterName(layer), Token(parameterName(layer))))

\* lines 1218-1229: the import of the layer from the parameter's value
importLayer(out, scope, layer) ==
  LET existingLayer == tryFindChild(out.tree, scope, importedLayerId(layer))
  IN  IF existingLayer # Undefined
      THEN Outcome(out.tree, out.deps, "ok", existingLayer[1])
      ELSE AddChild(out, Node(scope, importedLayerId(layer), "LayerVersion", NoAddr,
                              parameterName(layer), Token(parameterName(layer))))

\* the parameter is published under its identifier, without the /layers/ path
publishParameterUnderItsId(out, layer) ==
  LET layerStack == StackOf(layer.scope)
      existingSsmParam == tryFindChild(out.tree, layerStack, parameterId(layer))
  IN  IF existingSsmParam = Undefined
      THEN AddChild(out, Node(layerStack, parameterId(layer), "StringParameter", NoAddr,
                              parameterId(layer), layer.value))
      ELSE out

\* lines 1208-1217: the layer's ARN stored in a parameter of the layer's stack
publishParameter(out, layer) ==
  LET layerStack == StackOf(layer.scope)
      existingSsmParam == tryFindChild(out.tree, layerStack, parameterId(layer))
  IN  IF existingSsmParam = Undefined
      THEN AddChild(out, Node(layerStack, parameterId(layer), "StringParameter", NoAddr,
                              parameterName(layer), layer.value))
      ELSE out

\* a resolution that uses directly only the layers of the current stack
handleImportedLayerOwnStackOnly(t, d, scope, layer) ==
  LET layerStack == StackOf(layer.scope)
      currentStack == StackOf(scope)
  IN  IF layerStack = currentStack
      THEN Outcome(t, d, "ok", layer)
      ELSE LET dependent == Outcome(t, d \cup {<<currentStack, layerStack>>}, "ok", NoNode)
               published == publishParameter(dependent, layer)
           IN  IF published.status # "ok" THEN published
               ELSE importLayer(published, scope, layer)

\* lines 1189-1232
handleImportedLayer(t, d, scope, layer) ==
  LET layerStack == StackOf(layer.scope)
      currentStack == StackOf(scope)
  IN  IF layerStack = currentStack \/ ~ layer.value.token
      THEN Outcome(t, d, "ok", layer)
      ELSE LET dependent == Outcome(t, d \cup {<<currentStack, layerStack>>}, "ok", NoNode)
               published == publishParameter(dependent, layer)
           IN  IF published.status # "ok" THEN published
               ELSE importLayer(published, scope, layer)

(***************************************************************************)
(* The normalizers                                                         *)
(***************************************************************************)
NodeRuntimes ==
  {"nodejs", "nodejs4.3", "nodejs6.10", "nodejs8.10", "nodejs10.x", "nodejs12.x",
   "nodejs14.x", "nodejs16.x"}

PythonRuntimes == {"python2.7", "python3.6", "python3.7", "python3.8", "python3.9"}

JavaRuntimes == {"java8", "java11"}

OtherRuntimes ==
  {"dotnetcore1.0", "dotnetcore2.0", "dotnetcore2.1", "dotnetcore3.1", "dotnet6", "go1.x"}

\* the keys of the supportedRuntimes table
supportedRuntimes == NodeRuntimes \cup PythonRuntimes \cup JavaRuntimes \cup OtherRuntimes

\* keys every object answers through its prototype: supportedRuntimes[key] is
\* a truthy value for these too
ObjectPrototypeKeys == {"constructor", "toString", "valueOf", "hasOwnProperty"}

Ok(v) == [status |-> "ok", value |-> v]

Failed(error) == [status |-> error, value |-> Undefined]

normalizeRuntime(runtime) ==
  LET r == IF runtime = Undefined \/ runtime[1] = "" THEN "nodejs14.x" ELSE runtime[1]
  IN  IF r \in supportedRuntimes \cup ObjectPrototypeKeys THEN Ok(r)
      ELSE Failed("UnsupportedRuntime")

\* a plain number of seconds; 0 is falsy and gives the default
normalizeTimeout(timeout) ==
  IF timeout = Undefined \/ timeout[1] = 0 THEN 10 ELSE timeout[1]

\* a plain number of megabytes; 0 is falsy and gives the default
normalizeMemorySize(memorySize) ==
  IF memorySize = Undefined \/ memorySize[1] = 0 THEN 1024 ELSE memorySize[1]

normalizeDiskSize(diskSize) ==
  IF diskSize = Undefined \/ diskSize[1] = 0 THEN 512 ELSE diskSize[1]

\* srcPath.replace(/\/$/, ""): one trailing separator is removed
normalizeSrcPathOneSeparator(srcPath) ==
  IF srcPath # <<>> /\ srcPath[Len(srcPath)] = "/"
  THEN SubSeq(srcPath, 1, Len(srcPath) - 1)
  ELSE srcPath

RECURSIVE normalizeSrcPath(_)
\* srcPath.replace(/\/+$/, "")
normalizeSrcPath(srcPath) ==
  IF srcPath # <<>> /\ srcPath[Len(srcPath)] = "/"
  THEN normalizeSrcPath(SubSeq(srcPath, 1, Len(srcPath) - 1))
  ELSE srcPath

Root == <<".">>

\* Function.normalizeSrcPath(props.srcPath || ".")
srcPathOf(props) ==
  LET given == Get(props, "srcPath")
  IN  normalizeSrcPath(IF given = Undefined \/ given[1] = <<>> THEN Root ELSE given[1])

\* runtime.startsWith("nodejs"), ("python"), ("java")
isNodeRuntime(runtime) == runtime \in NodeRuntimes

isPythonRuntime(runtime) == runtime \in PythonRuntimes

isJavaRuntime(runtime) == runtime \in JavaRuntimes

(***************************************************************************)
(* The bundle prop: a boolean, or an object with copyFiles and, for Java,  *)
(* experimentalUseProvidedRuntime.                                         *)
(***************************************************************************)
BundleBoolean(b) ==
  [isBoolean |-> TRUE, bool |-> b, copyFiles |-> Undefined, providedRuntime |-> Undefined]

BundleObject(copyFiles, providedRuntime) ==
  [isBoolean |-> FALSE, bool |-> TRUE, copyFiles |-> copyFiles,
   providedRuntime |-> providedRuntime]

\* !bundle
IsFalsyBundle(bundle) == bundle = Undefined \/ (bundle[1].isBoolean /\ ~ bundle[1].bool)

\* lines 782-796: the constructor's local variable bundle after the defaults
localBundle(props, runtime) ==
  LET bundle == Get(props, "bundle")
  IN  IF isNodeRuntime(runtime)
      THEN (IF bundle = Undefined THEN Some(BundleBoolean(TRUE)) ELSE bundle)
      ELSE IF isPythonRuntime(runtime)
      THEN (IF bundle = Undefined THEN Some(BundleObject(Undefined, Undefined)) ELSE bundle)
      ELSE bundle

\* lines 750-796: the normalizations that throw and the validations, in the
\* code's order
validate(props) ==
  LET handler == Get(props, "handler")
      srcPath == srcPathOf(props)
      runtime == normalizeRuntime(Get(props, "runtime"))
  IN  IF runtime.status # "ok" THEN runtime.status
      ELSE IF handler = Undefined \/ handler[1] = "" THEN "MissingHandler"
      ELSE IF /\ isNodeRuntime(runtime.value)
              /\ IsFalsyBundle(localBundle(props, runtime.value))
              /\ srcPath = Root
      THEN "InvalidBundleConfig"
      ELSE IF isPythonRuntime(runtime.value) /\ srcPath = Root THEN "InvalidBundleConfig"
      ELSE "ok"

\* props.enableLiveDev === false ? false : true
isLiveDevEnabled(props) == Get(props, "enableLiveDev") # Some(FALSE)

\* path.posix.join(scope.node.path, id) with "$", "/" and "." replaced by "-"
localIdOf(scope, id) ==
  LET joined == scope \o <<"/">> \o id
  IN  [i \in 1..Len(joined) |-> IF joined[i] \in {"$", "/", "."} THEN "-" ELSE joined[i]]

(***************************************************************************)
(* The three deployment modes                                              *)
(***************************************************************************)
\* the removal pass is looked at before live development
selectModeSkipBuildFirst(props, a) ==
  IF a.skipBuild THEN "SkipBuild"
  ELSE IF isLiveDevEnabled(props) /\ a.mode = "start" THEN "LiveDev"
  ELSE "Build"

\* lines 810, 856, 876: the branch the constructor takes
selectMode(props, a) ==
  IF isLiveDevEnabled(props) /\ a.mode = "start" THEN "LiveDev"
  ELSE IF a.skipBuild THEN "SkipBuild"
  ELSE "Build"

LayerRef(layer) == [kind |-> "layer", value |-> PathOf(layer)]

RECURSIVE mapLayers(_, _, _, _)
\* the map of buildLayers over the layers that remain; it stops at the first
\* layer whose resolution throws
mapLayers(out, scope, id, layers) ==
  IF layers = <<>> THEN out
  ELSE LET layer == Head(layers)
           one == IF layer.kind = "string"
                  THEN AddChild(out, Node(scope, id \o layer.value, "LayerVersion", NoAddr,
                                          <<>>, Concrete(layer.value)))
                  ELSE handleImportedLayer(out.tree, out.deps, scope, LayerAt(layer.value))
       IN  IF one.status # "ok" THEN [one EXCEPT !.result = out.result]
           ELSE mapLayers([one EXCEPT !.result = Append(out.result, one.result)],
                          scope, id, Tail(layers))

\* the layers are resolved from the last to the first
buildLayersLastFirst(t, d, scope, id, props) ==
  mapLayers(Outcome(t, d, "ok", <<>>), scope, id, Reverse(OrEmptyList(Get(props, "layers"))))

\* Function.buildLayers: result is the list of the layers resolved
buildLayers(t, d, scope, id, props) ==
  mapLayers(Outcome(t, d, "ok", <<>>), scope, id, OrEmptyList(Get(props, "layers")))

\* attachPermissionsToRole(role, permissions): the grants it adds
grantsOf(permissions) ==
  IF IsWildcard(permissions) THEN <<"*">> ELSE OrEmptyPerms(permissions)

PlaceholderCode == "export function placeholder() {}"

BridgeCode == "dist/support/bridge"

\* a live development resource that keeps the retryAttempts of the props
liveDevResourceKeepsRetryAttempts(scope, id, props, a) ==
  [ mode |-> "LiveDev",
    code |-> BridgeCode,
    handler |-> "bridge.handler",
    runtime |-> "nodejs16.x",
    timeout |-> IF a.debugIncreaseTimeout THEN 900
                ELSE normalizeTimeout(Get(props, "timeout")),
    environment |-> ("SST_FUNCTION_ID" :> localIdOf(scope, id))
                    @@ ("SST_DEBUG_SRC_HANDLER" :> Get(props, "handler")[1])
                    @@ ("SST_DEBUG_SRC_PATH" :> srcPathOf(props))
                    @@ OrEmptyObj(Get(props, "environment")),
    layers |-> <<>>,
    retryAttempts |-> IF Get(props, "retryAttempts") = Undefined THEN Some(0)
                      ELSE Get(props, "retryAttempts"),
    grants |-> <<"iot:*">> ]

\* lines 823-853: the resource of the live development branch
liveDevResource(scope, id, props, a) ==
  [ mode |-> "LiveDev",
    code |-> BridgeCode,
    handler |-> "bridge.handler",
    runtime |-> "nodejs16.x",
    timeout |-> IF a.debugIncreaseTimeout THEN 900
                ELSE normalizeTimeout(Get(props, "timeout")),
    environment |-> ("SST_FUNCTION_ID" :> localIdOf(scope, id))
                    @@ ("SST_DEBUG_SRC_HANDLER" :> Get(props, "handler")[1])
                    @@ ("SST_DEBUG_SRC_PATH" :> srcPathOf(props))
                    @@ OrEmptyObj(Get(props, "environment")),
    layers |-> <<>>,
    retryAttempts |-> Some(0),
    grants |-> <<"iot:*">> ]

\* a placeholder that is given the declared runtime from the start
placeholderResourceDeclaredRuntime(mode, props, layers) ==
  [ mode |-> mode,
    code |-> PlaceholderCode,
    handler |-> "index.placeholder",
    runtime |-> normalizeRuntime(Get(props, "runtime")).value,
    timeout |-> normalizeTimeout(Get(props, "timeout")),
    environment |-> OrEmptyObj(Get(props, "environment")),
    layers |-> layers,
    retryAttempts |-> Get(props, "retryAttempts"),
    grants |-> <<>> ]

\* lines 859-873 and 877-891: the resource of the other two branches
placeholderResource(mode, props, layers) ==
  [ mode |-> mode,
    code |-> PlaceholderCode,
    handler |-> "index.placeholder",
    runtime |-> "nodejs16.x",
    timeout |-> normalizeTimeout(Get(props, "timeout")),
    environment |-> OrEmptyObj(Get(props, "environment")),
    layers |-> layers,
    retryAttempts |-> Get(props, "retryAttempts"),
    grants |-> <<>> ]

\* a deferred task is added in both placeholder branches
addsDeferredTaskUnlessLiveDev(mode) == mode # "LiveDev"

\* line 892: only the build branch adds a deferred task
addsDeferredTask(mode) == mode = "Build"

\* this.addEnvironment(key, value): the last value set for a key is kept
addEnvironment(environment, key, value) == (key :> value) @@ environment

\* lines 933-965: what the constructor does after the branch
afterBranch(resource, scope, id, props, runtime, a) ==
  LET env1 == IF isNodeRuntime(runtime)
              THEN addEnvironment(resource.environment,
                                  "AWS_NODEJS_CONNECTION_REUSE_ENABLED", "1")
              ELSE resource.environment
      env2 == addEnvironment(addEnvironment(env1, "SST_APP", a.name), "SST_STAGE", a.stage)
  IN  [ mode |-> resource.mode,
        code |-> resource.code,
        handler |-> resource.handler,
        runtime |-> resource.runtime,
        timeout |-> resource.timeout,
        environment |-> env2,
        layers |-> resource.layers,
        retryAttempts |-> resource.retryAttempts,
        grants |-> resource.grants \o grantsOf(Get(props, "permissions")),
        props |-> props,
        localId |-> localIdOf(scope, id),
        task |-> IF addsDeferredTask(resource.mode) THEN "queued" ELSE "none",
        bundled |-> "none",
        files |-> <<>>,
        disableBind |-> FALSE ]

FunctionNode(scope, id) == Node(scope, id, "Function", NoAddr, <<>>, Concrete(<<>>))

NoFunction == EmptyObj

Constructed(t, d, status, fn) == [tree |-> t, deps |-> d, status |-> status, fn |-> fn]

\* a constructor that resolves the layers before it validates the props
constructLayersFirst(t, d, chain, a, scope, id, explicit) ==
  LET props == constructorMerge(chain, explicit)
      valid == validate(props)
      runtime == normalizeRuntime(Get(props, "runtime")).value
      mode == selectMode(props, a)
      built == IF mode = "LiveDev" THEN Outcome(t, d, "ok", <<>>)
               ELSE buildLayers(t, d, scope, id, props)
      made == AddChild(built, FunctionNode(scope, id))
  IN  IF built.status # "ok"
      THEN Constructed(built.tree, built.deps, built.status, NoFunction)
      ELSE IF valid # "ok" THEN Constructed(built.tree, built.deps, valid, NoFunction)
      ELSE IF made.status # "ok"
      THEN Constructed(built.tree, built.deps, made.status, NoFunction)
      ELSE Constructed(made.tree, made.deps, "ok",
                       afterBranch(IF mode = "LiveDev"
                                   THEN liveDevResource(scope, id, props, a)
                                   ELSE placeholderResource(mode, props, built.result),
                                   scope, id, props, runtime, a))

\* the constructor, lines 731-966, for the explicit props: the tree and the
\* dependencies it leaves, how it ended and, when it succeeded, the function
construct(t, d, chain, a, scope, id, explicit) ==
  LET props == constructorMerge(chain, explicit)
      valid == validate(props)
      runtime == normalizeRuntime(Get(props, "runtime")).value
      mode == selectMode(props, a)
  IN  IF valid # "ok" THEN Constructed(t, d, valid, NoFunction)
      ELSE IF mode = "LiveDev"
      THEN LET made == AddChild(Outcome(t, d, "ok", NoNode), FunctionNode(scope, id))
           IN  IF made.status # "ok" THEN Constructed(t, d, made.status, NoFunction)
               ELSE Constructed(made.tree, made.deps, "ok",
                                afterBranch(liveDevResource(scope, id, props, a),
                                            scope, id, props, runtime, a))
      ELSE LET built == buildLayers(t, d, scope, id, props)
               made == AddChild(built, FunctionNode(scope, id))
           IN  IF built.status # "ok"
               THEN Constructed(built.tree, built.deps, built.status, NoFunction)
               ELSE IF made.status # "ok"
               THEN Constructed(built.tree, built.deps, made.status, NoFunction)
               ELSE Constructed(made.tree, made.deps, "ok",
                                afterBranch(placeholderResource(mode, props, built.result),
                                            scope, id, props, runtime, a))

(***************************************************************************)
(* Function.fromDefinition.  A definition is a handler string, an instance *)
(* of this Function class (known by the path of its node), an instance of  *)
(* lambda.Function, or a props object.                                     *)
(***************************************************************************)
Definition(kind, text, props, path) ==
  [kind |-> kind, text |-> text, props |-> props, path |-> path]

StringDefinition(handler) == Definition("string", handler, EmptyObj, <<>>)

InstanceDefinition(path) == Definition("Function", "", EmptyObj, path)

LambdaDefinition == Definition("lambda.Function", "", EmptyObj, <<>>)

PropsDefinition(props) == Definition("props", "", props, <<>>)

\* what fromDefinition leaves and returns: the tree and the dependencies, how
\* it ended, the function it constructed if it constructed one, the props it
\* gave to the constructor and the path of the function it returned
Defined(t, d, status, fn, props, returned) ==
  [tree |-> t, deps |-> d, status |-> status, fn |-> fn, props |-> props,
   returned |-> returned]

\* lines 1246-1252 and 1267-1272: new Function(scope, id, props) and
\* fn._disableBind = true
definedFunction(t, d, chain, a, scope, id, props) ==
  LET made == construct(t, d, chain, a, scope, id, props)
  IN  IF made.status # "ok"
      THEN Defined(made.tree, made.deps, made.status, NoFunction, props, <<>>)
      ELSE Defined(made.tree, made.deps, "ok", [made.fn EXCEPT !.disableBind = TRUE], props,
                   scope \o <<"/">> \o id)

\* Object.keys(inheritedProps).length > 0, for inheritedProps that may be undefined
hasInheritedProps(inheritedProps) ==
  inheritedProps # Undefined /\ DOMAIN inheritedProps[1] # {}

\* an instance is returned whatever the inherited props are
fromDefinitionInstanceAlways(t, d, chain, a, scope, id, definition, inheritedProps) ==
  IF definition.kind = "string"
  THEN definedFunction(t, d, chain, a, scope, id,
                       Spread(OrEmptyObj(inheritedProps),
                              ("handler" :> Some(definition.text))))
  ELSE IF definition.kind = "Function"
  THEN Defined(t, d, "ok", NoFunction, EmptyObj, definition.path)
  ELSE IF definition.kind = "lambda.Function"
  THEN Defined(t, d, "InvalidFunctionDefinition", NoFunction, EmptyObj, <<>>)
  ELSE IF Get(definition.props, "handler") # Undefined
  THEN definedFunction(t, d, chain, a, scope, id,
                       mergeProps(OrEmptyObj(inheritedProps), definition.props))
  ELSE Defined(t, d, "InvalidFunctionDefinition", NoFunction, EmptyObj, <<>>)

\* lines 1239-1275.  The two errors thrown for a definition that cannot be
\* used (lines 1261-1264 for an instance of lambda.Function, line 1274 for
\* the rest) differ in their message only
fromDefinition(t, d, chain, a, scope, id, definition, inheritedProps) ==
  IF definition.kind = "string"
  THEN definedFunction(t, d, chain, a, scope, id,
                       Spread(OrEmptyObj(inheritedProps),
                              ("handler" :> Some(definition.text))))
  ELSE IF definition.kind = "Function"
  THEN IF hasInheritedProps(inheritedProps)
       THEN Defined(t, d, "ConflictingInheritedProps", NoFunction, EmptyObj, <<>>)
       ELSE Defined(t, d, "ok", NoFunction, EmptyObj, definition.path)
  ELSE IF definition.kind = "lambda.Function"
  THEN Defined(t, d, "InvalidFunctionDefinition", NoFunction, EmptyObj, <<>>)
  ELSE IF Get(definition.props, "handler") # Undefined
  THEN definedFunction(t, d, chain, a, scope, id,
                       mergeProps(OrEmptyObj(inheritedProps), definition.props))
  ELSE Defined(t, d, "InvalidFunctionDefinition", NoFunction, EmptyObj, <<>>)

(***************************************************************************)
(* Function.attachPermissions and Function.bind.  A permission entry is a  *)
(* string; the entries that name a Job are instances of Job.  What a       *)
(* construct binds, and what the role accepts, belongs to the binding      *)
(* contract and to attachPermissionsToRole.                                *)
(***************************************************************************)
JobReports == "job:reports"

JobBroken == "job:broken"

Jobs == {JobReports, JobBroken}

\* p instanceof Job
IsJob(p) == p \in Jobs

\* bindEnvironment(c): the environment variables of the construct
bindEnvironment(c) ==
  IF c = JobReports THEN ("SST_Job_functionName_reports" :> "reports-runner")
  ELSE IF c = JobBroken THEN ("SST_Job_functionName_broken" :> "broken-runner")
  ELSE EmptyObj

\* Object.entries(bindPermissions(c)): the actions of the construct; the second
\* job binds an action that is no IAM action
bindPermissions(c) ==
  IF c = JobReports THEN <<"lambda:InvokeFunction">>
  ELSE IF c = JobBroken THEN <<"sqs:SendMessage", "not an action">>
  ELSE <<>>

\* new iam.PolicyStatement({ actions: [action], ... }) throws for an action
\* that is neither "*" nor of the form service:action
isIamAction(action) == action # "not an action"

Bound(status, fn) == [status |-> status, fn |-> fn]

\* attachPermissionsToRole(role, permissions): blanket authorization for the
\* wildcard, one grant per entry otherwise
attachPermissionsToRole(fn, permissions) ==
  [fn EXCEPT !.grants = @ \o grantsOf(permissions)]

RECURSIVE attachStatements(_, _)
\* lines 995-1001: this.attachPermissions([new iam.PolicyStatement(...)]) for
\* every action the construct binds; a statement is no Job, so the nested
\* call grants it and binds nothing
attachStatements(fn, actions) ==
  IF actions = <<>> THEN Bound("ok", fn)
  ELSE IF ~ isIamAction(Head(actions)) THEN Bound("BindFailure", fn)
  ELSE attachStatements(attachPermissionsToRole(fn, Some(PermList(<<Head(actions)>>))),
                        Tail(actions))

RECURSIVE addEnvironments(_, _)
\* lines 988-991: this.addEnvironment(key, value) for every variable
addEnvironments(environment, bound) ==
  IF DOMAIN bound = {} THEN environment
  ELSE LET key == CHOOSE k \in DOMAIN bound : TRUE
       IN  addEnvironments(addEnvironment(environment, key, bound[key]),
                           [k \in DOMAIN bound \ {key} |-> bound[k]])

RECURSIVE bind(_, _)
\* Function.bind, lines 983-1003: an exception ends the forEach
bind(fn, constructs) ==
  IF constructs = <<>> THEN Bound("ok", fn)
  ELSE LET withEnvironment ==
             [fn EXCEPT !.environment = addEnvironments(@, bindEnvironment(Head(constructs)))]
           attached == attachStatements(withEnvironment, bindPermissions(Head(constructs)))
       IN  IF attached.status # "ok" THEN attached
           ELSE bind(attached.fn, Tail(constructs))

RECURSIVE bindJobs(_, _)
\* lines 1046-1048: permissions.filter(p => p instanceof Job).forEach(p => this.bind([p]))
bindJobs(fn, jobs) ==
  IF jobs = <<>> THEN Bound("ok", fn)
  ELSE LET bound == bind(fn, <<Head(jobs)>>)
       IN  IF bound.status # "ok" THEN bound
           ELSE bindJobs(bound.fn, Tail(jobs))

\* the jobs among the permissions are granted and not bound
attachPermissionsWithoutBind(fn, permissions) ==
  Bound("ok", attachPermissionsToRole(fn, permissions))

\* Function.attachPermissions, lines 1038-1056; this.role is set for every
\* function the constructor has made
attachPermissions(fn, permissions) ==
  LET granted == attachPermissionsToRole(fn, permissions)
  IN  IF IsWildcard(permissions) THEN Bound("ok", granted)
      ELSE bindJobs(granted, SelectSeq(OrEmptyPerms(permissions), IsJob))

(***************************************************************************)
(* Function.copyFiles and the deferred build task                          *)
(***************************************************************************)
\* the files of the project, by path
ExistingFiles == { <<"s", "/", "a">>, <<"s", "/", "b">> }

\* path.isAbsolute(p)
isAbsolute(path) == path # <<>> /\ Head(path) = "/"

RECURSIVE stripLeadingSlashes(_)
stripLeadingSlashes(path) ==
  IF isAbsolute(path) THEN stripLeadingSlashes(Tail(path)) ELSE path

\* path.join(dir, rest)
pathJoin(dir, rest) ==
  IF dir = Root THEN stripLeadingSlashes(rest)
  ELSE dir \o <<"/">> \o stripLeadingSlashes(rest)

Copied(status, files) == [status |-> status, files |-> files]

CopyEntry(from, to) == [from |-> from, to |-> to]

RECURSIVE copyEachDestinationFirst(_, _, _, _)
\* the destination of an entry is looked at before its source
copyEachDestinationFirst(entries, srcPath, buildPath, files) ==
  IF entries = <<>> THEN Copied("ok", files)
  ELSE LET entry == Head(entries)
           fromPath == pathJoin(srcPath, entry.from)
           to == IF entry.to = Undefined \/ entry.to[1] = <<>> THEN entry.from ELSE entry.to[1]
           toPath == pathJoin(buildPath, to)
       IN  IF isAbsolute(to) THEN Copied("InvalidCopyDestination", files)
           ELSE IF fromPath \notin ExistingFiles THEN Copied("MissingCopySource", files)
           ELSE copyEachDestinationFirst(Tail(entries), srcPath, buildPath,
                                         Append(files, <<fromPath, toPath>>))

RECURSIVE copyEach(_, _, _, _)
\* the forEach of copyFiles over the entries that remain; files are the copies
\* made so far, as <<fromPath, toPath>>
copyEach(entries, srcPath, buildPath, files) ==
  IF entries = <<>> THEN Copied("ok", files)
  ELSE LET entry == Head(entries)
           fromPath == pathJoin(srcPath, entry.from)
           to == IF entry.to = Undefined \/ entry.to[1] = <<>> THEN entry.from ELSE entry.to[1]
           toPath == pathJoin(buildPath, to)
       IN  IF fromPath \notin ExistingFiles THEN Copied("MissingCopySource", files)
           ELSE IF isAbsolute(to) THEN Copied("InvalidCopyDestination", files)
           ELSE copyEach(Tail(entries), srcPath, buildPath, Append(files, <<fromPath, toPath>>))

copyFiles(bundle, srcPath, buildPath) ==
  IF IsFalsyBundle(bundle) THEN Copied("ok", <<>>)
  ELSE IF bundle[1].isBoolean THEN Copied("ok", <<>>)
  ELSE IF bundle[1].copyFiles = Undefined THEN Copied("ok", <<>>)
  ELSE copyEach(bundle[1].copyFiles[1], srcPath, buildPath, <<>>)

\* what Runtime.Handler.bundle resolves to: a directory or a built asset, each
\* with the handler of the built code
BundledDirectory ==
  [kind |-> "directory", directory |-> <<"o">>, code |-> "asset:o", handler |-> "o/api.handler"]

BundledAsset ==
  [kind |-> "asset", directory |-> <<>>, code |-> "asset:python", handler |-> "api.handler"]

BundleFailure ==
  [kind |-> "BuildFailure", directory |-> <<>>, code |-> "", handler |-> ""]

BundleResults == {BundledDirectory, BundledAsset, BundleFailure}

TaskEnd(status, fn) == [status |-> status, fn |-> fn]

\* supportedRuntimes[runtime].toString(): the name of the runtime the table
\* holds for the key; for a key of the prototype, the text of a function
lambdaRuntimeName(runtime) ==
  IF runtime \in supportedRuntimes THEN runtime ELSE "function () { [native code] }"

\* the provided runtime overrides the runtime of every family
builtRuntimeAnyFamily(runtime, bundle) ==
  IF /\ ~ IsFalsyBundle(bundle)
     /\ ~ bundle[1].isBoolean
     /\ bundle[1].providedRuntime # Undefined
     /\ bundle[1].providedRuntime[1] # ""
  THEN bundle[1].providedRuntime[1]
  ELSE lambdaRuntimeName(runtime)

\* lines 915-922: the runtime the task sets
builtRuntime(runtime, bundle) ==
  IF /\ isJavaRuntime(runtime)
     /\ ~ IsFalsyBundle(bundle)
     /\ ~ bundle[1].isBoolean
     /\ bundle[1].providedRuntime # Undefined
     /\ bundle[1].providedRuntime[1] # ""
  THEN bundle[1].providedRuntime[1]
  ELSE lambdaRuntimeName(runtime)

\* a task that sets the runtime before it copies the files
buildTaskRuntimeFirst(fn, bundled) ==
  LET runtime == normalizeRuntime(Get(fn.props, "runtime")).value
      bundle == localBundle(fn.props, runtime)
      copied == IF bundled.kind = "directory"
                THEN copyFiles(bundle, srcPathOf(fn.props), bundled.directory)
                ELSE Copied("ok", <<>>)
  IN  IF bundled.kind = "BuildFailure"
      THEN TaskEnd("BuildFailure", [fn EXCEPT !.task = "failed", !.bundled = bundled.kind])
      ELSE IF copied.status # "ok"
      THEN TaskEnd(copied.status,
                   [fn EXCEPT !.task = "failed", !.bundled = bundled.kind,
                              !.files = copied.files,
                              !.runtime = builtRuntime(runtime, bundle)])
      ELSE TaskEnd("ok", [fn EXCEPT !.task = "done",
                                    !.bundled = bundled.kind,
                                    !.files = copied.files,
                                    !.runtime = builtRuntime(runtime, bundle),
                                    !.code = bundled.code,
                                    !.handler = bundled.handler])

\* lines 894-929: the task from the moment the bundle settles; a rejected
\* bundle and a failed copy end the task before it changes the function
buildTask(fn, bundled) ==
  LET runtime == normalizeRuntime(Get(fn.props, "runtime")).value
      bundle == localBundle(fn.props, runtime)
      copied == IF bundled.kind = "directory"
                THEN copyFiles(bundle, srcPathOf(fn.props), bundled.directory)
                ELSE Copied("ok", <<>>)
  IN  IF bundled.kind = "BuildFailure"
      THEN TaskEnd("BuildFailure", [fn EXCEPT !.task = "failed", !.bundled = bundled.kind])
      ELSE IF copied.status # "ok"
      THEN TaskEnd(copied.status,
                   [fn EXCEPT !.task = "failed", !.bundled = bundled.kind,
                              !.files = copied.files])
      ELSE TaskEnd("ok", [fn EXCEPT !.task = "done",
                                    !.bundled = bundled.kind,
                                    !.files = copied.files,
                                    !.runtime = builtRuntime(runtime, bundle),
                                    !.code = bundled.code,
                                    !.handler = bundled.handler])

(***************************************************************************)
(* The layer specification: handleImportedLayer called from any scope for  *)
(* any layer, any number of times.                                         *)
(***************************************************************************)
\* an application that constructs no function
IdleApp ==
  [mode |-> "deploy", skipBuild |-> FALSE, debugIncreaseTimeout |-> FALSE,
   name |-> "app", stage |-> "dev", lambdaHandlers |-> <<>>]

NoMerge == [op |-> "none", base |-> EmptyObj, props |-> EmptyObj, result |-> EmptyObj]

NoCall ==
  [op |-> "none", status |-> "ok", target |-> <<>>, repeat |-> FALSE, result |-> NoNode,
   props |-> EmptyObj]

InitLayers ==
  /\ defaultFunctionProps = <<>>
  /\ mergeOut = NoMerge
  /\ tree = InitTree
  /\ deps = {}
  /\ resolved = EmptyObj
  /\ last = NoCall
  /\ app = IdleApp
  /\ fns = EmptyObj
  /\ queue = <<>>
  /\ phase = "construct"

HandleImportedLayerCall(scope, layer) ==
  \E out \in {handleImportedLayer(tree, deps, scope, layer)},
     key \in {<<scope, PathOf(layer)>>} :
      /\ tree' = out.tree
      /\ deps' = out.deps
      /\ last' = [op |-> "handleImportedLayer", status |-> out.status, target |-> key,
                  repeat |-> key \in DOMAIN resolved, result |-> out.result,
                  props |-> EmptyObj]
      /\ resolved' = IF out.status = "ok" /\ key \notin DOMAIN resolved
                     THEN (key :> out.result) @@ resolved
                     ELSE resolved
      /\ UNCHANGED <<defaultFunctionProps, mergeOut, app, fns, queue, phase>>

NextLayers ==
  \E scope \in Scopes, layer \in LayerNodes : HandleImportedLayerCall(scope, layer)

SpecLayers == InitLayers /\ [][NextLayers]_vars

(***************************************************************************)
(* Inputs of the merge specification: props fragments that vary one class  *)
(* of field each (a scalar, the environment, the permissions, the lists),  *)
(* and two that mix them.                                                  *)
(***************************************************************************)
StringLayer(chars) == [kind |-> "string", value |-> chars]

ScalarFragments ==
  { EmptyObj,
    ("timeout" :> Undefined),
    ("timeout" :> Some(5)),
    ("timeout" :> Some(30)) }

EnvironmentFragments ==
  { ("environment" :> Undefined),
    ("environment" :> Some(EmptyObj)),
    ("environment" :> Some(("A" :> "1"))),
    ("environment" :> Some(("A" :> "2") @@ ("B" :> "2"))),
    ("environment" :> Some(("B" :> "2"))) }

PermissionFragments ==
  { ("permissions" :> Undefined),
    ("permissions" :> Some(PermList(<<>>))),
    ("permissions" :> Some(Wildcard)),
    ("permissions" :> Some(PermList(<<"s3">>))),
    ("permissions" :> Some(PermList(<<"sns", "s3">>))) }

ListFragments ==
  { ("layers" :> Some(<<>>)),
    ("layers" :> Some(<<StringLayer(<<"x">>)>>)),
    ("layers" :> Some(<<StringLayer(<<"y">>), StringLayer(<<"x">>)>>)),
    ("bind" :> Some(<<"table">>)) @@ ("config" :> Some(<<"SECRET">>)),
    ("bind" :> Some(<<"bucket", "table">>)) @@ ("config" :> Some(<<"KEY">>)) }

MixedFragments ==
  { ("timeout" :> Some(5)) @@ ("environment" :> Some(("A" :> "1"))),
    ("handler" :> Some("src/api.handler")) @@ ("environment" :> Some(("B" :> "2"))) }

MergeFragments ==
  ScalarFragments \cup EnvironmentFragments \cup PermissionFragments
    \cup ListFragments \cup MixedFragments

Chains(n) == UNION { [1..k -> MergeFragments] : k \in 0..n }

(***************************************************************************)
(* The merge specification: the stack's chain is any chain of at most      *)
(* MaxChain fragments; mergeProps and the constructor's fold are applied   *)
(* to any fragments.                                                       *)
(***************************************************************************)
InitMerge ==
  /\ defaultFunctionProps \in Chains(MaxChain)
  /\ mergeOut = NoMerge
  /\ tree = InitTree
  /\ deps = {}
  /\ resolved = EmptyObj
  /\ last = NoCall
  /\ app = IdleApp
  /\ fns = EmptyObj
  /\ queue = <<>>
  /\ phase = "construct"

\* mergeProps does not read the stack's chain: the direct calls are made in the
\* behaviours whose chain is empty
MergePropsCall(b, p) ==
  /\ defaultFunctionProps = <<>>
  /\ mergeOut' = [op |-> "mergeProps", base |-> b, props |-> p, result |-> mergeProps(b, p)]
  /\ UNCHANGED <<defaultFunctionProps, tree, deps, resolved, last, app, fns, queue, phase>>

ConstructorMergeCall(p) ==
  /\ mergeOut' = [op |-> "constructor", base |-> EmptyObj, props |-> p,
                  result |-> constructorMerge(defaultFunctionProps, p)]
  /\ UNCHANGED <<defaultFunctionProps, tree, deps, resolved, last, app, fns, queue, phase>>

NextMerge ==
  \/ \E b \in MergeFragments, p \in MergeFragments : MergePropsCall(b, p)
  \/ \E p \in MergeFragments : ConstructorMergeCall(p)

SpecMerge == InitMerge /\ [][NextMerge]_vars

(***************************************************************************)
(* The specification of construction and of the deferred builds: the       *)
(* functions of an application are constructed while the tree is built;    *)
(* the queue of deferred tasks is drained afterwards, the tasks running in *)
(* any order and interleaving.                                             *)
(***************************************************************************)
Apps ==
  { [mode |-> m, skipBuild |-> s, debugIncreaseTimeout |-> t, name |-> "app", stage |-> "dev",
     lambdaHandlers |-> <<>>] :
      m \in {"start", "deploy"}, s \in BOOLEAN, t \in BOOLEAN }

Handler == ("handler" :> Some("src/api.handler"))

SrcS == <<"s">>

ProvidedBundle == Some(BundleObject(Undefined, Some("provided.al2")))

CopyBundle(entries) == Some(BundleObject(Some(entries), Undefined))

\* the stack's defaults: none, or two fragments
SpecChains ==
  { <<>>,
    << ("runtime" :> Some("java11")) @@ ("bundle" :> ProvidedBundle),
       ("timeout" :> Some(30)) @@ ("retryAttempts" :> Some(2)) >> }

\* the explicit props the functions are constructed with
ConstructProps ==
  { Handler,
    Handler @@ ("enableLiveDev" :> Some(FALSE)),
    Handler @@ ("runtime" :> Some("java11")) @@ ("bundle" :> ProvidedBundle),
    Handler @@ ("runtime" :> Some("go1.x")) @@ ("bundle" :> ProvidedBundle),
    Handler @@ ("runtime" :> Some("python3.9")) @@ ("srcPath" :> Some(<<"s", "/">>))
            @@ ("bundle" :> CopyBundle(<<CopyEntry(<<"a">>, Undefined)>>)),
    Handler @@ ("srcPath" :> Some(SrcS))
            @@ ("bundle" :> CopyBundle(<<CopyEntry(<<"a">>, Some(<<"t">>)),
                                         CopyEntry(<<"b">>, Some(<<"/", "t">>))>>)),
    Handler @@ ("runtime" :> Some("nodejs16.x")) @@ ("srcPath" :> Some(SrcS))
            @@ ("bundle" :> CopyBundle(<<CopyEntry(<<"z">>, Undefined)>>)),
    Handler @@ ("runtime" :> Some("nodejs16.x"))
            @@ ("layers" :> Some(<<LayerRef(LayerB1), StringLayer(<<"a", "r", "n">>)>>)),
    EmptyObj,
    Handler @@ ("runtime" :> Some("ruby2.7")),
    Handler @@ ("runtime" :> Some("python3.9")),
    Handler @@ ("runtime" :> Some("nodejs16.x")) @@ ("bundle" :> Some(BundleBoolean(FALSE))) }

\* the places where a function is constructed
Site(scope, id) == [scope |-> scope, id |-> id]

FunctionSites == { Site(StackA, <<"f">>), Site(ScopeApi, <<"g", ".", "h">>) }

Init ==
  /\ defaultFunctionProps \in SpecChains
  /\ mergeOut = NoMerge
  /\ tree = InitTree
  /\ deps = {}
  /\ resolved = EmptyObj
  /\ last = NoCall
  /\ app \in Apps
  /\ fns = EmptyObj
  /\ queue = <<>>
  /\ phase = "construct"

Called(op, status, target) ==
  [op |-> op, status |-> status, target |-> target, repeat |-> FALSE, result |-> NoNode,
   props |-> EmptyObj]

\* app.registerLambdaHandler({ bundle, handler, runtime, srcPath })
lambdaHandlerOf(props) ==
  [ bundle |-> Get(props, "bundle"),
    handler |-> Get(props, "handler"),
    runtime |-> normalizeRuntime(Get(props, "runtime")).value,
    srcPath |-> srcPathOf(props) ]

\* new Function(scope, id, props): what it does to the tree, the functions,
\* the queue and the application
Constructing(site, explicit) ==
  \E made \in {construct(tree, deps, defaultFunctionProps, app, site.scope, site.id, explicit)},
     key \in {PathOf(site)} :
      /\ phase = "construct"
      /\ tree' = made.tree
      /\ deps' = made.deps
      /\ fns' = IF made.status = "ok" THEN (key :> made.fn) @@ fns ELSE fns
      /\ queue' = IF made.status = "ok" /\ made.fn.task = "queued"
                  THEN Append(queue, key) ELSE queue
      /\ app' = IF made.status = "ok"
                THEN [app EXCEPT !.lambdaHandlers = Append(@, lambdaHandlerOf(made.fn.props))]
                ELSE app
      /\ last' = Called("construct", made.status, key)
      /\ defaultFunctionProps' = defaultFunctionPropsAfterSlice(defaultFunctionProps)
      /\ UNCHANGED <<resolved, phase>>

\* new Function(scope, id, props) while the tree is built
Construct(site, explicit) ==
  /\ Constructing(site, explicit)
  /\ UNCHANGED mergeOut

\* the tree is complete: the application starts to drain the queue
FinishConstruction ==
  /\ phase = "construct"
  /\ phase' = "drain"
  /\ last' = Called("finish", "ok", <<>>)
  /\ UNCHANGED <<defaultFunctionProps, mergeOut, tree, deps, resolved, app, fns, queue>>

Remove(q, i) == SubSeq(q, 1, i - 1) \o SubSeq(q, i + 1, Len(q))

\* the queue is drained once the whole tree has been constructed
Draining == phase = "drain"

\* a failed task aborts the deployment
phaseAfterTask(status) == IF status = "ok" THEN phase ELSE "aborted"

\* lines 892-901: a queued task starts and awaits Runtime.Handler.bundle
TaskStart(i) ==
  /\ Draining
  /\ i \in 1..Len(queue)
  /\ queue' = Remove(queue, i)
  /\ fns' = [fns EXCEPT ![queue[i]].task = "bundling"]
  /\ last' = Called("taskStart", "ok", queue[i])
  /\ UNCHANGED <<defaultFunctionProps, mergeOut, tree, deps, resolved, app, phase>>

\* a task that writes the runtime it built to every function that is being
\* bundled
updateEveryFunction(functions, key, fn) ==
  [k \in DOMAIN functions |->
     IF k = key THEN fn
     ELSE IF functions[k].task = "bundling" THEN [functions[k] EXCEPT !.runtime = fn.runtime]
     ELSE functions[k]]

\* lines 912-929: the task writes to this.node.defaultChild, the resource of
\* its own function
updateFunction(functions, key, fn) == [functions EXCEPT ![key] = fn]

\* lines 901-930: the bundle settles and the task runs to its end
TaskFinish(key, bundled) ==
  /\ key \in DOMAIN fns
  /\ fns[key].task = "bundling"
  /\ \E ended \in {buildTask(fns[key], bundled)} :
         /\ fns' = updateFunction(fns, key, ended.fn)
         /\ phase' = phaseAfterTask(ended.status)
         /\ last' = Called("taskFinish", ended.status, key)
  /\ UNCHANGED <<defaultFunctionProps, mergeOut, tree, deps, resolved, app, queue>>

Next ==
  \/ \E site \in FunctionSites, explicit \in ConstructProps : Construct(site, explicit)
  \/ FinishConstruction
  \/ \E i \in 1..Len(queue) : TaskStart(i)
  \/ \E key \in DOMAIN fns, bundled \in BundleResults : TaskFinish(key, bundled)

Spec == Init /\ [][Next]_vars

(***************************************************************************)
(* The specification of the constructor's calls: functions are constructed *)
(* with any of the props below, valid or not, and each call is recorded    *)
(* with the props it was given and the props it merged.                    *)
(***************************************************************************)
\* the stack's defaults: those of the specification above, or one fragment
\* that supplies a handler
CallChains == SpecChains \cup { << ("handler" :> Some("src/d.handler")) >> }

\* an environment that carries two of the keys the constructor sets itself
ReservedKeysEnvironment ==
  ("SST_DEBUG_SRC_HANDLER" :> "user.handler") @@ ("SST_APP" :> "user") @@ ("A" :> "1")

ForeignLayers == ("layers" :> Some(<<LayerRef(LayerB1)>>))

\* the explicit props of the calls
CallProps ==
  { EmptyObj,
    ("handler" :> Undefined),
    Handler,
    Handler @@ ("timeout" :> Some(5)) @@ ("retryAttempts" :> Some(1)),
    Handler @@ ("environment" :> Some(ReservedKeysEnvironment)),
    Handler @@ ("runtime" :> Some("nodejs16.x")) @@ ForeignLayers,
    ("runtime" :> Some("nodejs16.x")) @@ ForeignLayers,
    Handler @@ ("runtime" :> Some("python3.9")) @@ ForeignLayers,
    Handler @@ ("runtime" :> Some("nodejs16.x")) @@ ("bundle" :> Some(BundleBoolean(FALSE)))
            @@ ForeignLayers,
    Handler @@ ("runtime" :> Some("ruby2.7")) @@ ForeignLayers,
    ("runtime" :> Some("ruby2.7")) }

InitConstruct ==
  /\ defaultFunctionProps \in CallChains
  /\ mergeOut = NoMerge
  /\ tree = InitTree
  /\ deps = {}
  /\ resolved = EmptyObj
  /\ last = NoCall
  /\ app \in Apps
  /\ fns = EmptyObj
  /\ queue = <<>>
  /\ phase = "construct"

\* new Function(scope, id, props), recorded with the props of the call
ConstructCall(site, explicit) ==
  /\ Constructing(site, explicit)
  /\ mergeOut' = [op |-> "constructor", base |-> EmptyObj, props |-> explicit,
                  result |-> constructorMerge(defaultFunctionProps, explicit)]

NextConstruct ==
  \E site \in FunctionSites, explicit \in CallProps : ConstructCall(site, explicit)

SpecConstruct == InitConstruct /\ [][NextConstruct]_vars

(***************************************************************************)
(* The specification of fromDefinition: functions are defined by handler   *)
(* strings, by instances and by props objects, under inherited props.      *)
(***************************************************************************)
\* the stack's defaults: none, or one fragment
DefinitionChains == { <<>>, << ("timeout" :> Some(30)) >> }

\* the props a construct hands down to the functions it defines
InheritedProps ==
  { Undefined,
    Some(EmptyObj),
    Some(("timeout" :> Undefined)),
    Some(("handler" :> Some("src/i.handler")) @@ ("environment" :> Some(("A" :> "1")))) }

\* the definitions that are not instances of this class
PlainDefinitions ==
  { StringDefinition("src/s.handler"),
    LambdaDefinition,
    PropsDefinition(Handler @@ ("environment" :> Some(("B" :> "2")))),
    PropsDefinition(Handler @@ ("runtime" :> Some("ruby2.7"))),
    PropsDefinition(("timeout" :> Some(5))),
    PropsDefinition(("handler" :> Undefined)) }

\* every definition: the instances are the functions constructed so far
Definitions == PlainDefinitions \cup { InstanceDefinition(key) : key \in DOMAIN fns }

\* the applications: one that is started for live development, one that is
\* deployed
DefinitionApps == { a \in Apps : ~ a.skipBuild /\ ~ a.debugIncreaseTimeout }

InitDefinition ==
  /\ defaultFunctionProps \in DefinitionChains
  /\ mergeOut = NoMerge
  /\ tree = InitTree
  /\ deps = {}
  /\ resolved = EmptyObj
  /\ last = NoCall
  /\ app \in DefinitionApps
  /\ fns = EmptyObj
  /\ queue = <<>>
  /\ phase = "construct"

\* Function.fromDefinition(scope, id, definition, inheritedProps); the call is
\* recorded with the definition, the inherited props and the props given to
\* the constructor, and with the node of the function returned
FromDefinitionCall(site, definition, inheritedProps) ==
  \E out \in {fromDefinition(tree, deps, defaultFunctionProps, app, site.scope, site.id,
                              definition, inheritedProps)},
     key \in {PathOf(site)} :
      /\ phase = "construct"
      /\ tree' = out.tree
      /\ deps' = out.deps
      /\ fns' = IF out.fn # NoFunction THEN (key :> out.fn) @@ fns ELSE fns
      /\ queue' = IF out.fn # NoFunction /\ out.fn.task = "queued"
                  THEN Append(queue, key) ELSE queue
      /\ app' = IF out.fn # NoFunction
                THEN [app EXCEPT !.lambdaHandlers = Append(@, lambdaHandlerOf(out.fn.props))]
                ELSE app
      /\ defaultFunctionProps' =
           IF definition.kind \in {"string", "props"} /\ out.status # "InvalidFunctionDefinition"
           THEN defaultFunctionPropsAfterSlice(defaultFunctionProps)
           ELSE defaultFunctionProps
      /\ last' = [op |-> "fromDefinition", status |-> out.status, target |-> key,
                  repeat |-> FALSE,
                  result |-> IF out.returned = <<>> THEN NoNode
                             ELSE CHOOSE n \in out.tree : PathOf(n) = out.returned,
                  props |-> EmptyObj]
      /\ mergeOut' = [op |-> "fromDefinition", base |-> inheritedProps, props |-> definition,
                      result |-> out.props]
      /\ UNCHANGED <<resolved, phase>>

NextDefinition ==
  \E site \in FunctionSites, definition \in Definitions, inheritedProps \in InheritedProps :
    FromDefinitionCall(site, definition, inheritedProps)

SpecDefinition == InitDefinition /\ [][NextDefinition]_vars

(***************************************************************************)
(* The specification of the permissions: functions are constructed, and    *)
(* permissions are attached and constructs are bound to them, as long as   *)
(* a function holds fewer than MaxGrants grants.                           *)
(***************************************************************************)
\* the number of grants from which on nothing more is attached to a function
MaxGrants == 4

\* the stack's defaults: none, or one fragment with a permission
PermissionChains == { <<>>, << ("permissions" :> Some(PermList(<<"s3">>))) >> }

\* the permissions attached
PermissionSets ==
  { Wildcard,
    PermList(<<>>),
    PermList(<<"sns">>),
    PermList(<<"s3", JobReports>>),
    PermList(<<JobReports, "dynamodb", JobBroken>>) }

\* the place of the function
PermissionSites == { Site(StackA, <<"f">>) }

\* the constructs bound
BindSets == { <<>>, <<JobReports>>, <<JobBroken, JobReports>> }

InitPermissions ==
  /\ defaultFunctionProps \in PermissionChains
  /\ mergeOut = NoMerge
  /\ tree = InitTree
  /\ deps = {}
  /\ resolved = EmptyObj
  /\ last = NoCall
  /\ app \in DefinitionApps
  /\ fns = EmptyObj
  /\ queue = <<>>
  /\ phase = "construct"

\* new Function(scope, id, { handler })
ConstructPlain(site) ==
  /\ Constructing(site, Handler)
  /\ mergeOut' = [op |-> "constructor", base |-> EmptyObj, props |-> Handler,
                  result |-> constructorMerge(defaultFunctionProps, Handler)]

\* fn.attachPermissions(permissions)
AttachPermissionsCall(key, permissions) ==
  /\ key \in DOMAIN fns
  /\ Len(fns[key].grants) < MaxGrants
  /\ \E out \in {attachPermissions(fns[key], Some(permissions))} :
       /\ fns' = [fns EXCEPT ![key] = out.fn]
       /\ last' = Called("attachPermissions", out.status, key)
  /\ mergeOut' = [op |-> "attachPermissions", base |-> EmptyObj,
                  props |-> ("permissions" :> Some(permissions)), result |-> EmptyObj]
  /\ UNCHANGED <<defaultFunctionProps, tree, deps, resolved, app, queue, phase>>

\* fn.bind(constructs)
BindCall(key, constructs) ==
  /\ key \in DOMAIN fns
  /\ Len(fns[key].grants) < MaxGrants
  /\ \E out \in {bind(fns[key], constructs)} :
       /\ fns' = [fns EXCEPT ![key] = out.fn]
       /\ last' = Called("bind", out.status, key)
  /\ mergeOut' = [op |-> "bind", base |-> EmptyObj,
                  props |-> ("bind" :> Some(constructs)), result |-> EmptyObj]
  /\ UNCHANGED <<defaultFunctionProps, tree, deps, resolved, app, queue, phase>>

NextPermissions ==
  \/ \E site \in PermissionSites : ConstructPlain(site)
  \/ \E key \in DOMAIN fns, permissions \in PermissionSets :
       AttachPermissionsCall(key, permissions)
  \/ \E key \in DOMAIN fns, constructs \in BindSets : BindCall(key, constructs)

SpecPermissions == InitPermissions /\ [][NextPermissions]_vars

(***************************************************************************)
(* The specification of the layers of a function: functions are            *)
(* constructed with props that list layers, under defaults that list none  *)
(* or one.                                                                 *)
(***************************************************************************)
\* the ARN of a layer, given as a string
LayerArn == <<"a", "r", "n">>

\* the stack's defaults: none, or one fragment that lists a layer by its ARN
LayerChains == { <<>>, << ("layers" :> Some(<<StringLayer(LayerArn)>>)) >> }

\* the explicit props of the functions: layers of both kinds, one of them
\* listed twice
LayerProps ==
  { Handler,
    Handler @@ ForeignLayers,
    Handler @@ ("layers" :> Some(<<StringLayer(LayerArn)>>)),
    Handler @@ ("layers" :> Some(<<StringLayer(<<"x">>), LayerRef(LayerB1), LayerRef(LayerB1),
                                   LayerRef(LayerA3)>>)),
    Handler @@ ("layers" :> Some(<<LayerRef(LayerB4), LayerRef(LayerB2)>>)) }

InitFunctionLayers ==
  /\ defaultFunctionProps \in LayerChains
  /\ mergeOut = NoMerge
  /\ tree = InitTree
  /\ deps = {}
  /\ resolved = EmptyObj
  /\ last = NoCall
  /\ app \in Apps
  /\ fns = EmptyObj
  /\ queue = <<>>
  /\ phase = "construct"

\* new Function(scope, id, props) with props that list layers
ConstructWithLayers(site, explicit) ==
  /\ Constructing(site, explicit)
  /\ mergeOut' = [op |-> "constructor", base |-> EmptyObj, props |-> explicit,
                  result |-> constructorMerge(defaultFunctionProps, explicit)]

NextFunctionLayers ==
  \E site \in FunctionSites, explicit \in LayerProps : ConstructWithLayers(site, explicit)

SpecFunctionLayers == InitFunctionLayers /\ [][NextFunctionLayers]_vars

(***************************************************************************)
(* The specification of the normalizers, of the validation and of          *)
(* copyFiles: each is applied to any of its inputs.                        *)
(***************************************************************************)
\* the largest plain number given to a normalizer
MaxNumber == 3

\* the longest list of copyFiles entries
MaxEntries == 2

NumberInputs == {Undefined} \cup { Some(n) : n \in 0..MaxNumber }

UnsupportedIdentifiers == {"ruby2.7", "nodejs18.x", "python", "Nodejs16.x"}

RuntimeInputs ==
  {Undefined, Some("")}
    \cup { Some(r) : r \in supportedRuntimes \cup ObjectPrototypeKeys \cup UnsupportedIdentifiers }

\* the objects that carry the key with one of the values, or not at all
Optional(key, values) == {EmptyObj} \cup { (key :> v) : v \in values }

SrcPathInputs ==
  { Undefined, Some(<<>>), Some(Root), Some(<<".", "/">>), Some(<<".", "/", "/">>),
    Some(SrcS), Some(<<"s", "/">>), Some(<<"/">>), Some(<<".", "/", "s">>) }

BundleInputs ==
  { Undefined, Some(BundleBoolean(FALSE)), Some(BundleBoolean(TRUE)),
    Some(BundleObject(Undefined, Undefined)) }

ValidateInputs ==
  { h @@ r @@ p @@ b :
      h \in Optional("handler", {Undefined, Some(""), Some("src/api.handler")}),
      r \in Optional("runtime", { Some(x) : x \in {"nodejs16.x", "python3.9", "go1.x", "java11",
                                                     "dotnet6", "ruby2.7", "constructor"} }),
      p \in Optional("srcPath", SrcPathInputs),
      b \in Optional("bundle", BundleInputs) }

CopyEntries ==
  { CopyEntry(from, to) :
      from \in { <<"a">>, <<"z">>, <<"/", "a">> },
      to \in { Undefined, Some(<<>>), Some(<<"t">>), Some(<<"/", "t">>) } }

CopyFilesInputs ==
  BundleInputs
    \cup { CopyBundle(entries) : entries \in UNION { [1..k -> CopyEntries] : k \in 0..MaxEntries } }

InitNormalize ==
  /\ defaultFunctionProps = <<>>
  /\ mergeOut = NoMerge
  /\ tree = InitTree
  /\ deps = {}
  /\ resolved = EmptyObj
  /\ last = NoCall
  /\ app = IdleApp
  /\ fns = EmptyObj
  /\ queue = <<>>
  /\ phase = "construct"

NormalizeRuntimeCall(runtime) ==
  /\ \E out \in {normalizeRuntime(runtime)} :
       last' = Applied("normalizeRuntime", out.status, runtime,
                       IF out.status = "ok" THEN Some(out.value) ELSE Undefined)
  /\ UNCHANGED <<defaultFunctionProps, mergeOut, tree, deps, resolved, app, fns, queue, phase>>

NormalizeTimeoutCall(timeout) ==
  /\ last' = Applied("normalizeTimeout", "ok", timeout, Some(normalizeTimeout(timeout)))
  /\ UNCHANGED <<defaultFunctionProps, mergeOut, tree, deps, resolved, app, fns, queue, phase>>

NormalizeMemorySizeCall(memorySize) ==
  /\ last' = Applied("normalizeMemorySize", "ok", memorySize,
                     Some(normalizeMemorySize(memorySize)))
  /\ UNCHANGED <<defaultFunctionProps, mergeOut, tree, deps, resolved, app, fns, queue, phase>>

NormalizeDiskSizeCall(diskSize) ==
  /\ last' = Applied("normalizeDiskSize", "ok", diskSize, Some(normalizeDiskSize(diskSize)))
  /\ UNCHANGED <<defaultFunctionProps, mergeOut, tree, deps, resolved, app, fns, queue, phase>>

\* lines 750-796 of the constructor for the merged props
ValidateCall(props) ==
  /\ last' = Applied("validate", validate(props), props, Undefined)
  /\ UNCHANGED <<defaultFunctionProps, mergeOut, tree, deps, resolved, app, fns, queue, phase>>

CopyFilesCall(bundle) ==
  /\ \E out \in {copyFiles(bundle, SrcS, BundledDirectory.directory)} :
       last' = Applied("copyFiles", out.status, bundle, out.files)
  /\ UNCHANGED <<defaultFunctionProps, mergeOut, tree, deps, resolved, app, fns, queue, phase>>

NextNormalize ==
  \/ \E runtime \in RuntimeInputs : NormalizeRuntimeCall(runtime)
  \/ \E timeout \in NumberInputs : NormalizeTimeoutCall(timeout)
  \/ \E memorySize \in NumberInputs : NormalizeMemorySizeCall(memorySize)
  \/ \E diskSize \in NumberInputs : NormalizeDiskSizeCall(diskSize)
  \/ \E props \in ValidateInputs : ValidateCall(props)
  \/ \E bundle \in CopyFilesInputs : CopyFilesCall(bundle)

SpecNormalize == InitNormalize /\ [][NextNormalize]_vars

(***************************************************************************)
(* Properties of the deployment modes and of the deferred builds           *)
(***************************************************************************)
\* live development is enabled for the function unless its merged props
\* carry enableLiveDev: false
LiveDevWanted(fn) == Get(fn.props, "enableLiveDev") # Some(FALSE)

ModeInvariant ==
  \A key \in DOMAIN fns :
    LET fn == fns[key]
        live == LiveDevWanted(fn) /\ app.mode = "start"
    IN  /\ fn.mode \in {"LiveDev", "SkipBuild", "Build"}
        /\ live => fn.mode = "LiveDev"
        /\ (~ live /\ app.skipBuild) => fn.mode = "SkipBuild"
        /\ (~ live /\ ~ app.skipBuild) => fn.mode = "Build"
        /\ (fn.mode = "LiveDev") <=> ("SST_FUNCTION_ID" \in DOMAIN fn.environment)
        /\ (fn.mode = "Build") <=> (fn.task # "none")

ModeStable ==
  \A key \in DOMAIN fns : key \in DOMAIN fns' /\ fns'[key].mode = fns[key].mode

\* C1: every constructed function is in exactly one mode: LiveDev when live
\* development is enabled for it and the application mode is "start",
\* otherwise SkipBuild when the skip-build flag is set, otherwise Build; and
\* the mode of a function never changes.
C1_ModeSelection == [] ModeInvariant /\ [][ModeStable]_vars

\* a function has been constructed in LiveDev mode by an application whose
\* skip-build flag is set, and another in SkipBuild mode
C1_Witness ==
  /\ app.skipBuild
  /\ \E k1 \in DOMAIN fns, k2 \in DOMAIN fns :
       fns[k1].mode = "LiveDev" /\ fns[k2].mode = "SkipBuild"

FunctionKeys == { PathOf(site) : site \in FunctionSites }

\* the number of tasks of the queue that belong to the function
QueuedTasks(key) == Cardinality({i \in 1..Len(queue) : queue[i] = key})

IsBuildFunction(key) == key \in DOMAIN fns /\ fns[key].mode = "Build"

\* C2: while functions are constructed the queue holds one task for each
\* Build function and none for any other; a task of the queue always belongs
\* to a Build function; with the skip-build flag set the queue stays empty
\* and no function has a task.
C2_OneTaskPerBuildFunction ==
  /\ \A key \in FunctionKeys :
       /\ phase = "construct" => QueuedTasks(key) = IF IsBuildFunction(key) THEN 1 ELSE 0
       /\ QueuedTasks(key) <= 1
       /\ QueuedTasks(key) = 1 => IsBuildFunction(key)
  /\ \A i \in 1..Len(queue) : queue[i] \in FunctionKeys
  /\ app.skipBuild => (queue = <<>> /\ \A key \in DOMAIN fns : fns[key].task = "none")

\* a Build function and a LiveDev function have been constructed
C2_Witness ==
  /\ phase = "construct"
  /\ Len(queue) = 1
  /\ \E k1 \in DOMAIN fns, k2 \in DOMAIN fns :
       fns[k1].mode = "Build" /\ fns[k2].mode = "LiveDev"

\* a function that still has the placeholder artifact
IsDraft(fn) ==
  /\ fn.code = PlaceholderCode
  /\ fn.handler = "index.placeholder"
  /\ fn.runtime = "nodejs16.x"

IsPrefix(q1, q2) == Len(q1) <= Len(q2) /\ SubSeq(q2, 1, Len(q1)) = q1

DraftUntilDrained ==
  \A key \in DOMAIN fns :
    fns[key].mode = "Build" =>
      /\ phase = "construct" => fns[key].task = "queued"
      /\ fns[key].task = "queued" => (IsDraft(fns[key]) /\ QueuedTasks(key) = 1)

OnlyAppended == (phase = "construct" /\ phase' = "construct") => IsPrefix(queue, queue')

\* C3: while the tree is constructed no task has started: the queue only
\* grows at its end and every Build function is queued, with the placeholder
\* code, the handler "index.placeholder" and the baseline runtime, which it
\* keeps as long as its task is in the queue.
C3_NoTaskDuringConstruction == [] DraftUntilDrained /\ [][OnlyAppended]_vars

\* two Build functions are queued during construction, one of them declared
\* with a Java runtime
C3_Witness ==
  /\ phase = "construct"
  /\ Len(queue) = 2
  /\ \E key \in DOMAIN fns :
       fns[key].mode = "Build" /\ Get(fns[key].props, "runtime") = Some("java11")

\* the declared runtime of a function: the runtime of its props, or the default
DeclaredRuntime(fn) ==
  IF Get(fn.props, "runtime") = Undefined THEN "nodejs14.x" ELSE Get(fn.props, "runtime")[1]

\* the provided runtime the bundle config of the function specifies, if any
ProvidedRuntime(fn) ==
  LET bundle == Get(fn.props, "bundle")
  IN  IF bundle = Undefined THEN Undefined
      ELSE IF bundle[1].isBoolean THEN Undefined
      ELSE bundle[1].providedRuntime

ExpectedRuntime(fn) ==
  IF DeclaredRuntime(fn) \in {"java8", "java11"} /\ ProvidedRuntime(fn) # Undefined
  THEN ProvidedRuntime(fn)[1]
  ELSE DeclaredRuntime(fn)

Artifact(fn) == <<fn.runtime, fn.code, fn.handler>>

ResolvedInvariant ==
  \A key \in DOMAIN fns :
    LET fn == fns[key]
    IN  /\ fn.task = "done" =>
             /\ fn.mode = "Build"
             /\ fn.runtime = ExpectedRuntime(fn)
             /\ \E bundled \in BundleResults \ {BundleFailure} :
                  /\ fn.bundled = bundled.kind
                  /\ fn.code = bundled.code
                  /\ fn.handler = bundled.handler
        /\ fn.mode = "LiveDev" => Artifact(fn) = <<"nodejs16.x", BridgeCode, "bridge.handler">>
        /\ fn.mode = "SkipBuild" => IsDraft(fn)

\* the artifact of a function changes only in the step that ends its own
\* task, from the placeholder, and once
OnlyOwnTaskResolves ==
  \A key \in DOMAIN fns :
    (key \in DOMAIN fns' /\ Artifact(fns'[key]) # Artifact(fns[key])) =>
      /\ fns[key].mode = "Build"
      /\ IsDraft(fns[key])
      /\ fns[key].task = "bundling"
      /\ fns'[key].task = "done"
      /\ last'.op = "taskFinish"
      /\ last'.target = key
      /\ \A other \in DOMAIN fns \ {key} : fns'[other] = fns[other]

\* C4: the artifact of a Build function changes once, in the step in which
\* its own task completes, from the placeholder to the built code, the
\* handler the bundler returned and the declared runtime (the provided
\* runtime for a Java runtime whose bundle config specifies one); functions
\* in LiveDev and SkipBuild mode keep their initial artifact.
C4_SingleResolution == [] ResolvedInvariant /\ [][OnlyOwnTaskResolves]_vars

\* a Java function whose bundle config specifies a provided runtime and a Go
\* function whose bundle config specifies one too have both been built
C4_Witness ==
  \E k1 \in DOMAIN fns, k2 \in DOMAIN fns :
    /\ fns[k1].task = "done" /\ fns[k1].runtime = "provided.al2"
    /\ fns[k2].task = "done" /\ fns[k2].runtime = "go1.x"
    /\ ProvidedRuntime(fns[k2]) # Undefined

\* whether copying the auxiliary files of the function into a directory fails
CopyFails(fn) ==
  copyFiles(localBundle(fn.props, DeclaredRuntime(fn)), srcPathOf(fn.props),
            BundledDirectory.directory).status # "ok"

FailureInvariant ==
  /\ \A key \in DOMAIN fns :
       LET fn == fns[key]
       IN  /\ fn.task = "failed" => (IsDraft(fn) /\ QueuedTasks(key) = 0)
           /\ fn.bundled = "BuildFailure" => fn.task = "failed"
           /\ (fn.bundled = "directory" /\ CopyFails(fn)) => fn.task = "failed"
  /\ (last.op = "taskFinish" /\ fns[last.target].task = "failed") =>
       last.status = IF fns[last.target].bundled = "BuildFailure" THEN "BuildFailure"
                     ELSE copyFiles(localBundle(fns[last.target].props,
                                                DeclaredRuntime(fns[last.target])),
                                    srcPathOf(fns[last.target].props),
                                    BundledDirectory.directory).status

FailedStays ==
  \A key \in DOMAIN fns :
    fns[key].task = "failed" => (key \in DOMAIN fns' /\ fns'[key] = fns[key])

\* C5: a task whose bundle fails, or whose copy of the auxiliary files fails,
\* ends failed with that error and is not run again; the function of a failed
\* task has the placeholder runtime, code and handler.
C5_FailedTaskLeavesDraft == [] FailureInvariant /\ [][FailedStays]_vars

\* a task has failed on the second file to copy, after the first was copied
C5_Witness ==
  /\ last.op = "taskFinish"
  /\ last.status = "InvalidCopyDestination"
  /\ fns[last.target].task = "failed"
  /\ Len(fns[last.target].files) = 1

\* the fields of a function that its task leaves alone are what they were
SameButArtifact(after, before) ==
  [after EXCEPT !.runtime = before.runtime, !.code = before.code,
                !.handler = before.handler, !.task = before.task,
                !.bundled = before.bundled, !.files = before.files] = before

\* a step of a task changes the runtime, the code and the handler of its own
\* function at most, and nothing of the other functions, of the tree, of the
\* dependencies and of the application
OwnFunctionOnly ==
  (last'.op \in {"taskStart", "taskFinish"}) =>
    /\ DOMAIN fns' = DOMAIN fns
    /\ \A key \in DOMAIN fns :
         IF key = last'.target THEN SameButArtifact(fns'[key], fns[key])
         ELSE fns'[key] = fns[key]
    /\ tree' = tree
    /\ deps' = deps
    /\ app' = app

\* the function as it was when its task started
DraftOf(fn) ==
  [fn EXCEPT !.runtime = "nodejs16.x", !.code = PlaceholderCode,
             !.handler = "index.placeholder", !.task = "bundling",
             !.bundled = "none", !.files = <<>>]

BundledAs(kind) == CHOOSE bundled \in BundleResults : bundled.kind = kind

\* a function whose task has ended is what its own task makes of its own
\* draft and of its own bundle, whatever the other tasks did and when
OwnOutcome ==
  \A key \in DOMAIN fns :
    fns[key].task \in {"done", "failed"} =>
      fns[key] = buildTask(DraftOf(fns[key]), BundledAs(fns[key].bundled)).fn

\* C27: the deferred tasks of different functions are independent: a task
\* changes the runtime, the code and the handler of its own function only,
\* and the state of a function whose task has ended depends on its own props
\* and on its own bundle only, so it is the same for every order and every
\* interleaving of the tasks.
C27_TasksIndependent == [] OwnOutcome /\ [][OwnFunctionOnly]_vars

\* the queue is drained and the tasks of two functions have ended, one on a
\* bundled directory and one on a bundled asset, the second while the first
\* was being bundled
C27_Witness ==
  /\ phase = "drain"
  /\ queue = <<>>
  /\ last.op = "taskFinish"
  /\ \E k1 \in DOMAIN fns, k2 \in DOMAIN fns :
       /\ k1 # k2
       /\ last.target = k2
       /\ fns[k1].task = "bundling"
       /\ fns[k2].task = "done" /\ fns[k2].bundled = "asset"

(***************************************************************************)
(* Properties of the merge                                                 *)
(***************************************************************************)
RECURSIVE FoldLeft(_, _)
\* merge(merge(merge(d1, d2), ...), dn) starting from acc
FoldLeft(acc, chain) ==
  IF chain = <<>> THEN acc ELSE FoldLeft(mergeProps(acc, Head(chain)), Tail(chain))

\* merge(merge(merge(d1,d2),...,dn), p)
LeftToRightMerge(chain, p) ==
  IF chain = <<>> THEN p ELSE mergeProps(FoldLeft(Head(chain), Tail(chain)), p)

\* C8: the props the constructor computes by folding the reversed chain,
\* merge(d1, merge(d2, ... merge(dn, p))), equal the left-to-right fold
\* merge(merge(merge(d1,d2),...,dn), p), key by key and value by value.
C8_MergeAssociative ==
  mergeOut.op = "constructor" =>
    mergeOut.result = LeftToRightMerge(defaultFunctionProps, mergeOut.props)

\* a chain of two fragments with a conflicting scalar, a wildcard in the middle
\* of the permissions, and an explicit fragment, has been folded
C8_Witness ==
  /\ mergeOut.op = "constructor"
  /\ Len(defaultFunctionProps) = 2
  /\ IsWildcard(Get(mergeOut.result, "permissions"))
  /\ ~ IsWildcard(Get(defaultFunctionProps[1], "permissions"))
  /\ Get(mergeOut.props, "permissions") = Some(PermList(<<"s3">>))

ScalarKeys == {"timeout", "handler"}

\* the sources of a function's props, least specific first
Sources(chain, p) == Append(chain, p)

\* the value of the most specific source that supplies a value for the key
RECURSIVE MostSpecific(_, _)
MostSpecific(sources, key) ==
  IF sources = <<>> THEN Undefined
  ELSE LET specific == sources[Len(sources)]
       IN  IF Get(specific, key) # Undefined THEN Get(specific, key)
           ELSE MostSpecific(SubSeq(sources, 1, Len(sources) - 1), key)

\* C9: every scalar field of the merged props has the value of the most
\* specific source (explicit props, then the last-registered default, ...,
\* then the first-registered one) that supplies a value; a source that
\* carries the field as undefined erases nothing.
C9_ScalarMostSpecific ==
  mergeOut.op = "constructor" =>
    \A key \in ScalarKeys :
      Get(mergeOut.result, key)
        = MostSpecific(Sources(defaultFunctionProps, mergeOut.props), key)

\* C10: the merged permissions are the wildcard when either side is the
\* wildcard, and otherwise the base's entries followed by the override's.
C10_PermissionsMerge ==
  mergeOut.op = "mergeProps" =>
    LET b == Get(mergeOut.base, "permissions")
        p == Get(mergeOut.props, "permissions")
        r == Get(mergeOut.result, "permissions")
    IN  IF IsWildcard(b) \/ IsWildcard(p)
        THEN r = Some(Wildcard)
        ELSE /\ ~ IsWildcard(r)
             /\ OrEmptyPerms(r) = OrEmptyPerms(b) \o OrEmptyPerms(p)

\* a wildcard base has been merged with a list, and two lists that share an
\* entry have been merged
C10_Witness ==
  /\ mergeOut.op = "mergeProps"
  /\ \/ /\ IsWildcard(Get(mergeOut.base, "permissions"))
        /\ Get(mergeOut.props, "permissions") = Some(PermList(<<"s3">>))
     \/ /\ Get(mergeOut.base, "permissions") = Some(PermList(<<"sns", "s3">>))
        /\ Get(mergeOut.props, "permissions") = Some(PermList(<<"s3">>))
        /\ OrEmptyPerms(Get(mergeOut.result, "permissions")) = <<"sns", "s3", "s3">>

EnvironmentOf(props) == OrEmptyObj(Get(props, "environment"))

\* C11: the merged environment carries every key of the base's and of the
\* override's environment and no other, with the override's value on a key of
\* both; the defaults {timeout: 5, environment: {A: "1"}} then {timeout: 30}
\* with the explicit props {environment: {B: "2"}} give the timeout 30 and
\* the environment {A: "1", B: "2"}.
C11_EnvironmentUnion ==
  /\ mergeOut.op = "mergeProps" =>
       LET b == EnvironmentOf(mergeOut.base)
           p == EnvironmentOf(mergeOut.props)
           r == EnvironmentOf(mergeOut.result)
       IN  /\ DOMAIN r = (DOMAIN b) \cup (DOMAIN p)
           /\ \A k \in DOMAIN r : r[k] = IF k \in DOMAIN p THEN p[k] ELSE b[k]
  /\ ( /\ mergeOut.op = "constructor"
       /\ defaultFunctionProps
            = << ("timeout" :> Some(5)) @@ ("environment" :> Some(("A" :> "1"))),
                 ("timeout" :> Some(30)) >>
       /\ mergeOut.props = ("environment" :> Some(("B" :> "2"))) ) =>
       /\ Get(mergeOut.result, "timeout") = Some(30)
       /\ EnvironmentOf(mergeOut.result) = ("A" :> "1") @@ ("B" :> "2")

\* an environment has been merged with one that shares a key with it and
\* brings a key of its own
C11_Witness ==
  /\ mergeOut.op = "mergeProps"
  /\ EnvironmentOf(mergeOut.base) = ("A" :> "1")
  /\ EnvironmentOf(mergeOut.props) = ("A" :> "2") @@ ("B" :> "2")
  /\ EnvironmentOf(mergeOut.result) = ("A" :> "2") @@ ("B" :> "2")

ListKeys == {"layers", "config", "bind"}

ListOf(props, key) == OrEmptyList(Get(props, key))

\* the lists the sources carry under the key, one after the other
RECURSIVE Flatten(_, _)
Flatten(sources, key) ==
  IF sources = <<>> THEN <<>>
  ELSE ListOf(Head(sources), key) \o Flatten(Tail(sources), key)

\* C12: for layers, config and bind the merged list is the base's list
\* followed by the override's list; over a defaults chain the merged list is
\* the lists of the defaults in the order of registration followed by the
\* list of the explicit props.
C12_ListsConcatenate ==
  \A key \in ListKeys :
    /\ mergeOut.op = "mergeProps" =>
         /\ ListOf(mergeOut.result, key)
              = ListOf(mergeOut.base, key) \o ListOf(mergeOut.props, key)
         /\ Len(ListOf(mergeOut.result, key))
              = Len(ListOf(mergeOut.base, key)) + Len(ListOf(mergeOut.props, key))
    /\ mergeOut.op = "constructor" =>
         ListOf(mergeOut.result, key)
           = Flatten(Sources(defaultFunctionProps, mergeOut.props), key)

\* a chain of two defaults with layers and explicit props with layers have
\* been folded
C12_Witness ==
  /\ mergeOut.op = "constructor"
  /\ Len(defaultFunctionProps) = 2
  /\ ListOf(defaultFunctionProps[1], "layers") = <<StringLayer(<<"y">>), StringLayer(<<"x">>)>>
  /\ ListOf(defaultFunctionProps[2], "layers") = <<StringLayer(<<"x">>)>>
  /\ ListOf(mergeOut.props, "layers") = <<StringLayer(<<"y">>), StringLayer(<<"x">>)>>
  /\ Len(ListOf(mergeOut.result, "layers")) = 5

(***************************************************************************)
(* Properties of the normalizers, of the validation and of copyFiles       *)
(***************************************************************************)
\* the source root is the application root: srcPath is absent, empty, "." or
\* "." followed by separators
IsAppRoot(srcPath) ==
  \/ srcPath = Undefined
  \/ srcPath[1] = <<>>
  \/ /\ Head(srcPath[1]) = "."
     /\ \A i \in 2..Len(srcPath[1]) : srcPath[1][i] = "/"

HandlerGiven(props) == Get(props, "handler") \notin {Undefined, Some("")}

\* the runtime the props declare, or the default
RuntimeGiven(props) ==
  IF Get(props, "runtime") = Undefined THEN "nodejs14.x" ELSE Get(props, "runtime")[1]

\* bundling is explicitly disabled for a Node runtime at the application root
NodeRootCase(props) ==
  /\ RuntimeGiven(props) \in NodeRuntimes
  /\ Get(props, "bundle") = Some(BundleBoolean(FALSE))
  /\ IsAppRoot(Get(props, "srcPath"))

\* a Python runtime at the application root
PythonRootCase(props) ==
  /\ RuntimeGiven(props) \in PythonRuntimes
  /\ IsAppRoot(Get(props, "srcPath"))

C18_NormalizeRuntime ==
  last.op = "normalizeRuntime" =>
    IF last.target = Undefined
    THEN last.status = "ok" /\ last.result = Some("nodejs14.x")
    ELSE IF last.target[1] \in supportedRuntimes
    THEN last.status = "ok" /\ last.result = last.target
    ELSE last.status = "UnsupportedRuntime"

\* the default of each normalizer of a number
DefaultOf(op) ==
  IF op = "normalizeTimeout" THEN 10 ELSE IF op = "normalizeMemorySize" THEN 1024 ELSE 512

\* C19: normalizeTimeout, normalizeMemorySize and normalizeDiskSize return
\* the number they are given, and their default (10, 1024, 512) exactly when
\* the value is absent.
C19_NormalizeNumbers ==
  last.op \in {"normalizeTimeout", "normalizeMemorySize", "normalizeDiskSize"} =>
    /\ last.target # Undefined => last.result = last.target
    /\ last.target = Undefined => last.result = Some(DefaultOf(last.op))

\* the copyFiles entries of a bundle prop
EntriesOf(bundle) ==
  IF bundle = Undefined THEN <<>>
  ELSE IF bundle[1].isBoolean THEN <<>>
  ELSE OrEmptyList(bundle[1].copyFiles)

SourceExists(entry) == pathJoin(SrcS, entry.from) \in ExistingFiles

\* where the entry asks to be copied: to, or from when to is absent or empty
Destination(entry) ==
  IF entry.to = Undefined \/ entry.to[1] = <<>> THEN entry.from ELSE entry.to[1]

\* the copy of the entry into the build directory
CopyOf(entry) ==
  << pathJoin(SrcS, entry.from), pathJoin(BundledDirectory.directory, Destination(entry)) >>

DeclaredTimeout(props) ==
  IF Get(props, "timeout") = Undefined THEN 10 ELSE Get(props, "timeout")[1]

ReservedKeys(live) ==
  {"SST_APP", "SST_STAGE", "SST_SSM_PREFIX"}
    \cup (IF live THEN {"SST_DEBUG_SRC_PATH", "SST_DEBUG_SRC_HANDLER", "SST_FUNCTION_ID"}
          ELSE {})

\* C14: a construction whose merged environment carries a reserved key
\* (SST_APP, SST_STAGE, SST_SSM_PREFIX and, in LiveDev mode,
\* SST_DEBUG_SRC_PATH, SST_DEBUG_SRC_HANDLER, SST_FUNCTION_ID) fails.
C14_ReservedKeysCollisionFails ==
  (last.op = "construct" /\ mergeOut.op = "constructor") =>
    LET props == mergeOut.result
        live == Get(props, "enableLiveDev") # Some(FALSE) /\ app.mode = "start"
    IN  (DOMAIN EnvironmentOf(props)) \cap ReservedKeys(live) # {} => last.status # "ok"

ValidationErrors == {"MissingHandler", "UnsupportedRuntime", "InvalidBundleConfig"}

\* a construction that ends with a validation error changes nothing
FailFast ==
  (last'.op = "construct" /\ last'.status \in ValidationErrors) =>
    /\ tree' = tree
    /\ deps' = deps
    /\ fns' = fns
    /\ queue' = queue
    /\ app' = app

\* C15: a construction that fails with MissingHandler, UnsupportedRuntime or
\* InvalidBundleConfig, in any mode, leaves the construct tree, the stack
\* dependencies, the functions, the queue of deferred tasks and the handlers
\* registered with the application as they were.
C15_FailFast == [][FailFast]_vars

\* in Build mode a construction whose props carry a layer of another stack
\* has failed with InvalidBundleConfig, and nothing has been created
C15_Witness ==
  /\ last.op = "construct"
  /\ last.status = "InvalidBundleConfig"
  /\ app.mode = "deploy" /\ ~ app.skipBuild
  /\ Get(mergeOut.result, "layers") = Some(<<LayerRef(LayerB1)>>)
  /\ tree = InitTree
  /\ deps = {}
  /\ fns = EmptyObj
  /\ app.lambdaHandlers = <<>>

\* C17: a construction whose merged props have no handler fails with
\* MissingHandler, in every mode and whatever the other props are; when a
\* default fragment supplies a handler the construction does not fail with
\* MissingHandler.
C17_MissingHandler ==
  (last.op = "construct" /\ mergeOut.op = "constructor") =>
    /\ ~ HandlerGiven(mergeOut.result) => last.status = "MissingHandler"
    /\ (\E i \in 1..Len(defaultFunctionProps) : HandlerGiven(defaultFunctionProps[i]))
         => last.status # "MissingHandler"

(***************************************************************************)
(* Properties of the layer resolution                                      *)
(***************************************************************************)
\* the parameters of the tree that hold the layer's ARN
ParametersOf(layer) ==
  {n \in tree : n.kind = "StringParameter" /\ n.value = layer.value}

\* the imports of a scope that read a parameter holding the layer's ARN
ImportsOf(scope, layer) ==
  {n \in tree : /\ n.scope = scope
                /\ n.kind = "LayerVersion"
                /\ \E q \in ParametersOf(layer) : q.name = n.name}

\* C6: resolving a layer again from the same scope succeeds and returns the
\* object the first resolution returned; a scope holds at most one import per
\* layer and the tree at most one parameter per layer, whatever the number of
\* consuming scopes.
C6_ResolutionIdempotent ==
  /\ (last.op = "handleImportedLayer" /\ last.target \in DOMAIN resolved) =>
       /\ last.status = "ok"
       /\ last.result = resolved[last.target]
  /\ (last.op = "handleImportedLayer" /\ last.repeat) => last.target \in DOMAIN resolved
  /\ \A layer \in LayerNodes :
       /\ Cardinality(ParametersOf(layer)) <= 1
       /\ \A scope \in Scopes : Cardinality(ImportsOf(scope, layer)) <= 1

\* a foreign layer that two scopes had resolved has been resolved once more
C6_Witness ==
  /\ last.op = "handleImportedLayer"
  /\ last.repeat
  /\ last.result.kind = "LayerVersion"
  /\ \E k \in DOMAIN resolved :
       k[1] # last.target[1] /\ k[2] = last.target[2] /\ resolved[k].kind = "LayerVersion"

\* the layer is of the consuming scope's stack, or its ARN is a string
UsedDirectly(scope, layer) ==
  StackOf(layer.scope) = StackOf(scope) \/ ~ layer.value.token

\* a call for a layer that is used directly returns the layer and leaves the
\* tree and the dependencies as they were
DirectUse ==
  (last'.op = "handleImportedLayer"
     /\ UsedDirectly(last'.target[1], LayerAt(last'.target[2]))) =>
    /\ last'.status = "ok"
    /\ last'.result = LayerAt(last'.target[2])
    /\ tree' = tree
    /\ deps' = deps

\* C21: handleImportedLayer returns the layer it was given, and creates no
\* parameter, no import and no stack dependency, when the layer lives in the
\* stack of the consuming scope or when its version ARN is a string.
C21_DirectUse == [][DirectUse]_vars

\* a layer of another stack whose ARN is a string has been used directly from
\* a scope that had already resolved a foreign layer
C21_Witness ==
  /\ last.op = "handleImportedLayer"
  /\ last.target = <<ScopeApi, PathOf(LayerB4)>>
  /\ last.result = LayerB4
  /\ <<ScopeApi, PathOf(LayerB1)>> \in DOMAIN resolved
  /\ <<StackB, StackA>> \notin deps

\* the last call resolved a layer of another stack whose ARN is a token
ForeignCall ==
  /\ last.op = "handleImportedLayer"
  /\ last.status = "ok"
  /\ ~ UsedDirectly(last.target[1], LayerAt(last.target[2]))

\* the resolver adds the dependency of the consuming stack on the owning
\* stack, and no other
OnlyForwardDependency ==
  (last'.op = "handleImportedLayer" /\ last'.status = "ok") =>
    deps' = deps \cup
              (IF UsedDirectly(last'.target[1], LayerAt(last'.target[2])) THEN {}
               ELSE {<<StackOf(last'.target[1]), StackOf(LayerAt(last'.target[2]).scope)>>})

\* after a resolution of a foreign layer the consuming stack depends on the
\* owning stack, the owning stack holds a parameter whose value is the
\* layer's ARN, and the import returned reads the parameter of that name
Published ==
  ForeignCall =>
    LET scope == last.target[1]
        layer == LayerAt(last.target[2])
    IN  /\ <<StackOf(scope), StackOf(layer.scope)>> \in deps
        /\ last.result.kind = "LayerVersion"
        /\ last.result.scope = scope
        /\ \E q \in tree : /\ q.kind = "StringParameter"
                            /\ q.scope = StackOf(layer.scope)
                            /\ q.value = layer.value
                            /\ q.name = last.result.name
                            /\ last.result.value = Token(q.name)

\* C22: after every resolution of a foreign layer the consuming stack
\* depends on the owning stack, the resolution having added no other
\* dependency, the owning stack holds a parameter whose value is the layer's
\* version ARN, and the import returned reads the parameter of the name that
\* was published, also when the parameter or the import is reused.
C22_ResolutionProtocol == [] Published /\ [][OnlyForwardDependency]_vars

\* a foreign layer has been resolved again from a scope that had resolved it,
\* after another scope had published its parameter
C22_Witness ==
  /\ ForeignCall
  /\ last.repeat
  /\ last.target = <<StackA, PathOf(LayerB2)>>
  /\ <<ScopeApi, PathOf(LayerB2)>> \in DOMAIN resolved

\* the resolutions made so far that went through a parameter
ForeignResolved == {k \in DOMAIN resolved : resolved[k].kind = "LayerVersion"}

\* C7: two different foreign layers get different parameter names and
\* identifiers and, in one scope, different imports; the parameter each import
\* reads holds the ARN of its own layer.
C7_NoKeyCollision ==
  /\ \A k1 \in ForeignResolved, k2 \in ForeignResolved :
       k1[2] # k2[2] =>
         /\ resolved[k1].name # resolved[k2].name
         /\ k1[1] = k2[1] => resolved[k1].id # resolved[k2].id
  /\ \A k \in ForeignResolved :
       \E q \in tree : /\ q.kind = "StringParameter"
                       /\ q.name = resolved[k].name
                       /\ q.value = LayerAt(k[2]).value
  /\ \A q1 \in tree, q2 \in tree :
       (q1.kind = "StringParameter" /\ q2.kind = "StringParameter" /\ q1.value # q2.value)
         => (q1.id # q2.id /\ q1.name # q2.name)

\* two layers of one stack that carry the same id have been resolved from one scope
C7_Witness ==
  /\ <<StackA, PathOf(LayerB1)>> \in ForeignResolved
  /\ <<StackA, PathOf(LayerB2)>> \in ForeignResolved

(***************************************************************************)
(* Properties of the defaults chain, of the environment and of the layers  *)
(* of a constructed function                                               *)
(***************************************************************************)
\* a construction leaves the stack's chain as it was
ChainKept == defaultFunctionProps' = defaultFunctionProps

\* a construction with the explicit props of the construction before it
\* merges the same props
SameMerge ==
  (mergeOut.op = "constructor" /\ mergeOut'.op = "constructor"
     /\ mergeOut'.props = mergeOut.props)
    => mergeOut'.result = mergeOut.result

BookkeepingKeys == {"SST_DEBUG_SRC_PATH", "SST_DEBUG_SRC_HANDLER", "SST_FUNCTION_ID"}

\* the local identifier of the function at a path: the path with "/" and "."
\* replaced by "-"
LocalIdAt(key) ==
  IF key = <<"A", "/", "f">> THEN <<"A", "-", "f">>
  ELSE <<"A", "-", "x", "-", "g", "-", "h">>

\* C25: the environment of a LiveDev function carries SST_DEBUG_SRC_PATH with
\* the normalized source path, SST_DEBUG_SRC_HANDLER with the declared handler
\* and SST_FUNCTION_ID with the function's local identifier, and every
\* variable of the merged props with its value; in the other modes it carries
\* none of the three keys unless the props supply it.
C25_LiveDevEnvironment ==
  \A key \in DOMAIN fns :
    LET fn == fns[key]
        user == EnvironmentOf(fn.props)
    IN  /\ fn.mode = "LiveDev" =>
             /\ BookkeepingKeys \subseteq DOMAIN fn.environment
             /\ fn.environment["SST_DEBUG_SRC_PATH"] = srcPathOf(fn.props)
             /\ fn.environment["SST_DEBUG_SRC_HANDLER"] = Get(fn.props, "handler")[1]
             /\ fn.environment["SST_FUNCTION_ID"] = LocalIdAt(key)
             /\ \A k \in DOMAIN user :
                  k \in DOMAIN fn.environment /\ fn.environment[k] = user[k]
        /\ fn.mode # "LiveDev" =>
             \A k \in BookkeepingKeys :
               k \in DOMAIN fn.environment =>
                 k \in DOMAIN user /\ fn.environment[k] = user[k]

SiteAt(key) == CHOOSE site \in FunctionSites : PathOf(site) = key

\* the layer a function holds for a layer its props declare
Attached(declared, node, scope, t, d) ==
  IF declared.kind = "string"
  THEN node.kind = "LayerVersion" /\ node.scope = scope /\ node.value = Concrete(declared.value)
  ELSE LET layer == LayerAt(declared.value)
       IN  IF UsedDirectly(scope, layer) THEN node = layer
           ELSE /\ node.kind = "LayerVersion"
                /\ node.scope = scope
                /\ node \in t
                /\ <<StackOf(scope), StackOf(layer.scope)>> \in d
                /\ \E q \in t : /\ q.kind = "StringParameter"
                                 /\ q.value = layer.value
                                 /\ q.name = node.name

\* what a successful construction does with the layers of the merged props
LayersOfConstruction ==
  (last'.op = "construct" /\ last'.status = "ok" /\ last'.target \notin DOMAIN fns) =>
    LET fn == fns'[last'.target]
        scope == SiteAt(last'.target).scope
        declared == ListOf(fn.props, "layers")
    IN  IF fn.mode = "LiveDev"
        THEN /\ fn.layers = <<>>
             /\ deps' = deps
             /\ tree' = tree \cup {FunctionNode(scope, SiteAt(last'.target).id)}
        ELSE /\ Len(fn.layers) = Len(declared)
             /\ \A i \in 1..Len(declared) :
                  Attached(declared[i], fn.layers[i], scope, tree', deps')

\* C28: a function constructed in LiveDev mode has no layers, and its
\* construction adds the function to the tree and nothing else, no parameter,
\* no import and no stack dependency, also when its merged props list foreign
\* layers; a function constructed in SkipBuild or Build mode holds one
\* resolved layer for every layer of its merged props, in the order of the
\* props.
C28_LayersByMode == [][LayersOfConstruction]_vars

\* a function whose props list a foreign layer has been constructed in LiveDev
\* mode and nothing has been resolved
C28_Witness ==
  /\ last.op = "construct"
  /\ last.status = "ok"
  /\ fns[last.target].mode = "LiveDev"
  /\ ListOf(fns[last.target].props, "layers") = <<LayerRef(LayerB1)>>
  /\ deps = {}
  /\ \A n \in tree : n.kind \notin {"StringParameter", "LayerVersion"}

\* C29: a construction does not fail on a clash of identifiers unless a
\* function was already constructed under its own identifier: buildLayers
\* never creates two children of one identifier, whatever the layers of the
\* merged props.
C29_NoIdentifierClash ==
  (last.op = "construct" /\ last.status = "DuplicateConstruct") => last.target \in DOMAIN fns

(***************************************************************************)
(* Properties of fromDefinition                                            *)
(***************************************************************************)
DefinitionErrors == {"InvalidFunctionDefinition", "ConflictingInheritedProps"}

\* the inherited props are absent or have no key
NothingInherited(inheritedProps) ==
  inheritedProps = Undefined \/ inheritedProps = Some(EmptyObj)

\* the function constructed by the last call has the merge of the stack's
\* defaults with the props as its props
ConstructedFrom(props) ==
  /\ last.status \notin DefinitionErrors
  /\ mergeOut.result = props
  /\ last.status = "ok" =>
       /\ last.result = FunctionNode(SiteAt(last.target).scope, SiteAt(last.target).id)
       /\ fns[last.target].props = constructorMerge(defaultFunctionProps, props)

\* how a call of fromDefinition ends, by the kind of the definition
DefinitionOutcome ==
  last.op = "fromDefinition" =>
    LET definition == mergeOut.props
        inheritedProps == mergeOut.base
    IN  CASE definition.kind = "string" ->
               /\ ConstructedFrom(("handler" :> Some(definition.text))
                                    @@ OrEmptyObj(inheritedProps))
               /\ last.status = "ok" =>
                    Get(fns[last.target].props, "handler") = Some(definition.text)
          [] definition.kind = "Function" ->
               IF NothingInherited(inheritedProps)
               THEN /\ last.status = "ok"
                    /\ PathOf(last.result) = definition.path
                    /\ last.result.kind = "Function"
               ELSE last.status = "ConflictingInheritedProps"
          [] definition.kind = "props" /\ Get(definition.props, "handler") # Undefined ->
               ConstructedFrom(mergeProps(OrEmptyObj(inheritedProps), definition.props))
          [] OTHER -> last.status = "InvalidFunctionDefinition"

\* a call that fails on the definition, or that returns the instance it was
\* given, creates nothing and changes no function
NothingDefined ==
  (last'.op = "fromDefinition"
     /\ (last'.status \in DefinitionErrors \/ mergeOut'.props.kind = "Function")) =>
    /\ fns' = fns
    /\ tree' = tree
    /\ deps' = deps
    /\ queue' = queue
    /\ app' = app

\* C23: fromDefinition constructs, for a handler string, a function from the
\* inherited props with that handler; returns an instance of Function as it
\* is when the inherited props are absent or empty and fails with
\* ConflictingInheritedProps when they are not; constructs, for a props object
\* with a handler, a function from mergeProps(inheritedProps, definition); and
\* fails with InvalidFunctionDefinition for every other definition.  The
\* failing calls and the calls that return an instance create no function.
C23_FromDefinition == [] DefinitionOutcome /\ [][NothingDefined]_vars

\* an instance defined by a handler string over inherited props that carry
\* another handler has been given back by a later call without inherited props
C23_Witness ==
  /\ last.op = "fromDefinition"
  /\ last.status = "ok"
  /\ mergeOut.props.kind = "Function"
  /\ mergeOut.base = Some(EmptyObj)
  /\ PathOf(last.result) # last.target
  /\ Get(fns[PathOf(last.result)].props, "handler") = Some("src/s.handler")
  /\ EnvironmentOf(fns[PathOf(last.result)].props) = ("A" :> "1")

(***************************************************************************)
(* Properties of attachPermissions                                         *)
(***************************************************************************)
\* a construct whose binding fails: one of its actions is no IAM action
BindingFails(c) ==
  \E j \in 1..Len(bindPermissions(c)) : ~ isIamAction(bindPermissions(c)[j])

\* the function carries every variable of the job and holds, after its first
\* n grants, a grant for every action of the job
JobBound(job, fn, n) ==
  /\ \A k \in DOMAIN bindEnvironment(job) :
       k \in DOMAIN fn.environment /\ fn.environment[k] = bindEnvironment(job)[k]
  /\ \A j \in 1..Len(bindPermissions(job)) :
       \E i \in (n + 1)..Len(fn.grants) : fn.grants[i] = bindPermissions(job)[j]

\* what a call of attachPermissions does to the function
GrantedAndBound ==
  last'.op = "attachPermissions" =>
    LET permissions == mergeOut'.props["permissions"]
        entries == OrEmptyPerms(permissions)
        before == fns[last'.target]
        after == fns'[last'.target]
        n == Len(before.grants)
    IN  IF IsWildcard(permissions)
        THEN /\ last'.status = "ok"
             /\ after.grants = Append(before.grants, "*")
             /\ after.environment = before.environment
        ELSE /\ Len(after.grants) >= n + Len(entries)
             /\ SubSeq(after.grants, 1, n + Len(entries)) = before.grants \o entries
             /\ last'.status = "ok" =>
                  \A i \in 1..Len(entries) :
                    IsJob(entries[i]) => JobBound(entries[i], after, n + Len(entries))
             /\ last'.status = "BindFailure"
                  <=> \E i \in 1..Len(entries) : IsJob(entries[i]) /\ BindingFails(entries[i])
             /\ last'.status \in {"ok", "BindFailure"}

\* C26: after attachPermissions(set) the function has been granted blanket
\* authorization when the set is the wildcard and otherwise every entry of
\* the set, one grant per entry in the order of the set and none skipped;
\* every Job among the entries has been bound, each of its environment
\* variables set and each of its permissions granted; and the call fails
\* when the binding of one of the jobs fails.
C26_AttachPermissions == [][GrantedAndBound]_vars

\* a set with two jobs has been attached: its three entries are granted, the
\* first job is bound, and the failure of the second job's binding is raised
C26_Witness ==
  /\ last.op = "attachPermissions"
  /\ last.status = "BindFailure"
  /\ mergeOut.props["permissions"] = Some(PermList(<<JobReports, "dynamodb", JobBroken>>))
  /\ fns[last.target].grants =
       <<JobReports, "dynamodb", JobBroken, "lambda:InvokeFunction", "sqs:SendMessage">>
  /\ "SST_Job_functionName_reports" \in DOMAIN fns[last.target].environment

====
